---- MODULE Spec2Model ----
(***************************************************************************)
(* Invadr: the offline-first reconciliation core.                          *)
(*                                                                         *)
(*   storageService.ts   two AsyncStorage items (pending, synced) and the  *)
(*                       read-modify-write operations on them              *)
(*   syncManager.ts      runSync, the isSyncing guard, the listeners       *)
(*   ReportsContext.tsx  refresh / addReport / triggerSync                 *)
(*   ReportScreen.tsx    handleSave (addReport, direct upload, triggerSync)*)
(*                                                                         *)
(* JavaScript runs one continuation at a time: the code between two awaits *)
(* is one step.  An AsyncStorage getItem / setItem takes effect at one     *)
(* instant between the call and the resumption of its caller; the two      *)
(* items are independent, so the two getItem (setItem) calls of a          *)
(* Promise.all take effect in either order, with other steps in between.   *)
(* A step of the model is: one storage or network effect, followed by the  *)
(* continuation of the caller up to its next await.  The outcome of a      *)
(* network call (NetInfo.fetch, predictSpecies, uploadReport,              *)
(* fetchAllReports) is the environment's choice at the instant it resolves.*)
(***************************************************************************)
EXTENDS Integers, Sequences, FiniteSets, TLC

\* Number of reports the user captures in one run of the model.
MaxReports == 2

ReportIds == 1..MaxReports

\* Number of runSync() calls that get past the isSyncing guard in one run of
\* the model.
MaxRuns == 2

\* Number of store operations a single caller makes one after the other.
MaxCalls == 6

\* The two places runSync is started from: the NetInfo listener of
\* startNetworkListener and triggerSync of the ReportsProvider.
SyncProcs == {"listener", "trigger"}

\* The two AsyncStorage items (STORAGE_KEYS.PENDING_REPORTS / SYNCED_REPORTS).
StorageKeys == {"pending", "synced"}

SyncStatus == {"pending", "syncing", "uploaded", "failed"}

\* prediction: null, or a PredictResponse
NoPrediction == "null"
SomePrediction == "prediction"

NoReport == [id |-> 0, timestamp |-> 0, prediction |-> NoPrediction, syncStatus |-> "pending"]

\* No store operation has been called yet.
NoCall == [n |-> 0, op |-> "none", id |-> 0, status |-> "pending", report |-> NoReport,
           pending |-> <<>>, synced |-> <<>>]

VARIABLES
  pendingItem,     \* AsyncStorage item PENDING_REPORTS, parsed: a sequence of reports
  syncedItem,      \* AsyncStorage item SYNCED_REPORTS, parsed: a sequence of reports
  server,          \* the reports the backend holds (GET /reports), in arrival order
  isSyncing,       \* syncManager.ts: let isSyncing
  runs,            \* history: the runSync() calls that got past the guard so far
  pc,              \* per runSync invocation: the await it is suspended at
  awaiting,        \* per runSync invocation: the storage calls of a Promise.all still outstanding
  toSync,          \* per runSync invocation: the rest of toSync, the head is `report`
  finalReport,     \* per runSync invocation: finalReport of the current iteration
  rdPending,       \* per runSync invocation: the list returned by getPendingReports
  rdSynced,        \* per runSync invocation: the list returned by getSyncedReports
  delivered,       \* per runSync invocation: what notifyListeners delivered for the current record
  processed,       \* per runSync invocation: the records finished in this pass and their upload outcome
  called,          \* history, per runSync invocation: the NetInfo / gateway calls of the current iteration and how they ended
  nextId,          \* the next id generateId hands out
  userPc,          \* handleSave: the await it is suspended at
  draft,           \* handleSave: the report being saved
  userPending,     \* saveReport: the list returned by getPendingReports
  refreshPc,       \* refresh: the await it is suspended at
  refreshAwaiting, \* getAllReports: the getItem calls of its Promise.all still outstanding
  pendingRaw,      \* getAllReports: pendingRaw, parsed
  syncedRaw,       \* getAllReports: syncedRaw, parsed
  storedAtStart,   \* history: the ids the store held when getAllReports made its first read
  local,           \* refresh: const local
  reports,         \* ReportsProvider state: reports
  isRefreshing,    \* ReportsProvider state: isRefreshing
  lastFetch,       \* history: how fetchAllReports ended in the last refresh ("none" while it is running)
  storeCall,       \* history: the last call of a store operation by a single caller, with the buckets it found
  allReports,      \* detectOutbreaks: its argument, the list refresh hands it
  now,             \* the clock: Date.now() in milliseconds
  outbreakZones,   \* ReportsProvider state: outbreakZones, the result of the last detectOutbreaks call
  previousZones,   \* history: the result of the detectOutbreaks call before the last one
  detectedAt,      \* history: the clock reading of each detectOutbreaks call made so far
  fault,           \* history: the last collaborator call that rejected
  raised,          \* history: the calls of the core that ended by raising to their caller
  listeners,       \* syncManager.ts: const listeners, the array of registered callbacks
  forEachIndex,    \* notifyListeners: k, the index listeners.forEach is at (0: no forEach is running), len, the length it read at its start, n, the calls so far
  received,        \* history: how often each listener was called with the notification being delivered
  subscribed,      \* history: the listeners registered and not unsubscribed when the notification started
  unsubscribed,    \* history: the listeners whose unsubscribe function has been called
  ops              \* per caller of the store: the operation it is in and the await it is suspended at

storeVars == <<pendingItem, syncedItem>>
syncVars == <<isSyncing, runs, pc, awaiting, toSync, finalReport, rdPending, rdSynced, delivered, processed,
              called>>
userVars == <<nextId, userPc, draft, userPending>>
detectVars == <<allReports, now, outbreakZones, previousZones, detectedAt>>
faultVars == <<fault, raised>>
listenerVars == <<listeners, forEachIndex, received, subscribed, unsubscribed>>
opVars == <<ops>>
refreshVars == <<refreshPc, refreshAwaiting, pendingRaw, syncedRaw, storedAtStart, local, reports, isRefreshing,
                 lastFetch>>
vars == <<pendingItem, syncedItem, server, isSyncing, runs, pc, awaiting, toSync,
          finalReport, rdPending, rdSynced, delivered, processed, nextId, userPc, draft,
          userPending, refreshPc, refreshAwaiting, pendingRaw, syncedRaw, storedAtStart,
          local, reports, isRefreshing, called, lastFetch, storeCall, allReports, now,
          outbreakZones, previousZones, detectedAt, fault, raised, listeners, forEachIndex,
          received, subscribed, unsubscribed, ops>>

-----------------------------------------------------------------------------
(* Lists of reports *)

IdsOf(list) == {list[i].id : i \in 1..Len(list)}

CountId(list, id) == Cardinality({i \in 1..Len(list) : list[i].id = id})

HasId(list, id) == \E i \in 1..Len(list) : list[i].id = id

\* pending.find((r) => r.id === id): the first match
FindById(list, id) == list[CHOOSE i \in 1..Len(list) :
                            /\ list[i].id = id
                            /\ \A j \in 1..(i - 1) : list[j].id # id]

\* list.filter((r) => r.id !== id)
WithoutId(list, id) == SelectSeq(list, LAMBDA r : r.id # id)

\* { ...r, syncStatus: status }
WithStatus(r, status) == [r EXCEPT !.syncStatus = status]

\* (an insertion that puts a record before the records of equal timestamp:
\* the sort is not stable)
RECURSIVE InsertBeforeEqual(_, _)
InsertBeforeEqual(sorted, r) ==
  IF sorted = <<>> THEN <<r>>
  ELSE IF Head(sorted).timestamp > r.timestamp
       THEN <<Head(sorted)>> \o InsertBeforeEqual(Tail(sorted), r)
       ELSE <<r>> \o sorted

\* Array.prototype.sort with (a, b) => time(b) - time(a): stable, most recent first
RECURSIVE InsertByTimestamp(_, _)
InsertByTimestamp(sorted, r) ==
  IF sorted = <<>> THEN <<r>>
  ELSE IF Head(sorted).timestamp >= r.timestamp
       THEN <<Head(sorted)>> \o InsertByTimestamp(Tail(sorted), r)
       ELSE <<r>> \o sorted

RECURSIVE SortByTimestampDesc(_)
SortByTimestampDesc(list) ==
  IF list = <<>> THEN <<>>
  ELSE InsertByTimestamp(SortByTimestampDesc(SubSeq(list, 1, Len(list) - 1)), list[Len(list)])

-----------------------------------------------------------------------------
(* storageService.ts: what each operation computes from the lists it read *)

\* getAllReports: [...pending, ...synced].sort(most recent first)
GetAllReportsResult(pending, synced) == SortByTimestampDesc(pending \o synced)

\* (a variant of saveReport that does not filter out the old copy)
SaveReportAppending(pending, report) == Append(pending, report)

\* saveReport: [...pending.filter((r) => r.id !== report.id), report]
SaveReportResult(pending, report) == Append(WithoutId(pending, report.id), report)

\* (a variant of updateReportStatus that sets the status of every record)
UpdateReportStatusOfAll(pending, id, status) ==
  [i \in 1..Len(pending) |-> WithStatus(pending[i], status)]

\* updateReportStatus: pending.map((r) => (r.id === id ? { ...r, syncStatus: status } : r))
UpdateReportStatusResult(pending, id, status) ==
  [i \in 1..Len(pending) |->
     IF pending[i].id = id THEN WithStatus(pending[i], status) ELSE pending[i]]

\* markReportSynced: newPending and newSynced
MarkSyncedNewPending(pending, id) == WithoutId(pending, id)

\* (a variant of markReportSynced that keeps the syncStatus of the target)
MarkSyncedKeepingStatus(pending, synced, id) == Append(synced, FindById(pending, id))

MarkSyncedNewSynced(pending, synced, id) ==
  Append(synced, WithStatus(FindById(pending, id), "uploaded"))

\* (a variant of deleteReport that leaves the synced bucket alone)
DeleteKeepingSynced(synced, id) == synced

\* deleteReport: pending.filter((r) => r.id !== id) and synced.filter((r) => r.id !== id)
DeleteNewPending(pending, id) == WithoutId(pending, id)

DeleteNewSynced(synced, id) == WithoutId(synced, id)

-----------------------------------------------------------------------------
(* syncManager.ts *)

\* (a variant of the selection that takes every record of the pending bucket)
SelectAllPending(pending) == pending

\* runSync: pending.filter((r) => r.syncStatus === 'pending' || r.syncStatus === 'failed')
SelectToSync(pending) ==
  SelectSeq(pending, LAMBDA r : r.syncStatus = "pending" \/ r.syncStatus = "failed")

\* (a variant of notifyListeners that announces final states only)
NotifyListenersFinalOnly(log, report) ==
  IF report.syncStatus = "syncing" THEN log ELSE Append(log, report.syncStatus)

\* notifyListeners(report): every listener is called with the report; the
\* record of the deliveries of the current attempt grows by its syncStatus.
NotifyListeners(log, report) == Append(log, report.syncStatus)

\* One call of a collaborator by runSync and how it ended: NetInfo.fetch
\* (ok: isConnected), predictSpecies (ok: it resolved), uploadReport (ok: it
\* resolved; prediction: the prediction field of the payload).
GatewayCall(name, ok, prediction) == [call |-> name, ok |-> ok, prediction |-> prediction]

\* runSync, line 39: if (isSyncing) return; otherwise the call suspends at
\* await NetInfo.fetch()
RunSyncEntry(guard) == IF guard THEN "idle" ELSE "netFetch"

-----------------------------------------------------------------------------
(* apiService.ts and the backend *)

\* POST /reports: the backend keeps one report per id (upload is idempotent
\* by id); fetchAllReports maps every row to syncStatus 'uploaded'.
ServerAccept(srv, payload) ==
  IF HasId(srv, payload.id) THEN srv ELSE Append(srv, WithStatus(payload, "uploaded"))

-----------------------------------------------------------------------------
(* ReportsContext.tsx *)

\* (a variant of the merge that does not look at the server's ids)
MergeReportsIgnoringServerIds(serverReports, localReports) ==
  LET localOnly == SelectSeq(localReports,
                     LAMBDA r : r.syncStatus = "pending" \/ r.syncStatus = "failed")
  IN  SortByTimestampDesc(serverReports \o localOnly)

\* (a variant of the fetch that keeps the server's list when the call fails)
FetchedReportsAlways(ok, srv) == srv

\* refresh, lines 52-57: let serverReports = []; it is assigned only when
\* fetchAllReports resolves, a rejection is swallowed.
FetchedReports(ok, srv) == IF ok THEN srv ELSE <<>>

\* (a variant of the merge that keeps every local report that is not on the
\* server, whatever its syncStatus)
MergeReportsKeepingAllLocal(serverReports, localReports) ==
  LET serverIds == IdsOf(serverReports)
      localOnly == SelectSeq(localReports, LAMBDA r : r.id \notin serverIds)
  IN  SortByTimestampDesc(serverReports \o localOnly)

\* refresh, lines 59-65: server reports first, then the local reports that are
\* not on the server and are pending or failed; sorted most recent first.
MergeReports(serverReports, localReports) ==
  LET serverIds == IdsOf(serverReports)
      localOnly == SelectSeq(localReports,
                     LAMBDA r : /\ r.id \notin serverIds
                                /\ (r.syncStatus = "pending" \/ r.syncStatus = "failed"))
  IN  SortByTimestampDesc(serverReports \o localOnly)

\* handleSave: timestamp: new Date().toISOString().  Ids are handed out in
\* capture order, so timestamps do not decrease with the id; two captures
\* can carry the same timestamp.
TimestampOf(id) == id \div 2

-----------------------------------------------------------------------------
(* outbreakService.ts and the geo / date utilities of storageService.ts *)

\* OUTBREAK_CONFIG.  MIN_CONFIDENCE is 0.75; confidence scores are counted in
\* hundredths here.
MIN_REPORTS == 5
RADIUS_KM == 5
TIME_WINDOW_DAYS == 7
MIN_CONFIDENCE == 75

\* isWithinDays: 24 * 60 * 60 * 1000
MsPerDay == 24 * 60 * 60 * 1000

\* Longest list handed to detectOutbreaks, and the clock ticks (milliseconds)
\* that pass in one run of the model.
MaxDetectReports == 6
MaxTicks == 1

\* The clock reading the model starts at.
StartOfClock == (TIME_WINDOW_DAYS + 2) * MsPerDay

\* generateId: Math.random picks the id; two calls need not pick the same.
ZoneIdSeeds == {"x", "y"}

\* haversineDistanceKm.  The records of the model lie on one meridian and
\* `coordinates` is the distance in km from a fixed point of it, so the great
\* circle distance of two records is the difference of their coordinates.
haversineDistanceKm(a, b) == IF a >= b THEN a - b ELSE b - a

\* isWithinDays with `<` in place of `<=`.
isWithinDaysStrict(dateStr, days) ==
  LET date == dateStr
      windowMs == days * MsPerDay
  IN  now - date < windowMs

\* isWithinDays.  timestamp is the ISO string of toISOString(), which has
\* millisecond precision: new Date(dateStr).getTime() is the millisecond
\* count the string was made from.  Date.now() is the clock.
isWithinDays(dateStr, days) ==
  LET date == dateStr
      windowMs == days * MsPerDay
  IN  now - date <= windowMs

\* isHighRisk ignoring the confidence score.
isHighRiskAnyConfidence(report) ==
  /\ report.prediction # NoPrediction
  /\ report.invasive_risk_level = "high"

isHighRisk(report) ==
  /\ report.prediction # NoPrediction
  /\ report.invasive_risk_level = "high"
  /\ report.confidence_score >= MIN_CONFIDENCE

\* detectOutbreaks: const candidates = reports.filter(...)
Candidates(list) ==
  SelectSeq(list, LAMBDA r : isHighRisk(r) /\ isWithinDays(r.timestamp, TIME_WINDOW_DAYS))

\* (a cluster filter with `<` in place of `<=`)
ClusterOfStrict(anchor, candidates) ==
  SelectSeq(candidates,
            LAMBDA r : haversineDistanceKm(anchor.coordinates, r.coordinates) < RADIUS_KM)

\* detectOutbreaks: const cluster = candidates.filter(...)
ClusterOf(anchor, candidates) ==
  SelectSeq(candidates,
            LAMBDA r : haversineDistanceKm(anchor.coordinates, r.coordinates) <= RADIUS_KM)

RECURSIVE SumOfCoordinates(_)
SumOfCoordinates(list) ==
  IF list = <<>> THEN 0 ELSE Head(list).coordinates + SumOfCoordinates(Tail(list))

\* zones.push({...}).  centerCoordinates is the centroid, kept as the pair
\* (sum of the coordinates, number of members).
ZoneOf(cluster, id) ==
  [id |-> id,
   centerCoordinates |-> <<SumOfCoordinates(cluster), Len(cluster)>>,
   radiusKm |-> RADIUS_KM,
   reportCount |-> Len(cluster),
   detectedAt |-> now,
   reports |-> cluster]

\* The anchor loop of detectOutbreaks with a cluster threshold of one.
RECURSIVE AnchorLoopAnySize(_, _, _, _, _)
AnchorLoopAnySize(candidates, i, used, zones, seed) ==
  IF i > Len(candidates) THEN zones
  ELSE LET anchor == candidates[i]
           cluster == ClusterOf(anchor, candidates)
       IN  IF anchor.id \in used
             THEN AnchorLoopAnySize(candidates, i + 1, used, zones, seed)
             ELSE IF Len(cluster) >= 1
                    THEN AnchorLoopAnySize(candidates, i + 1, used \cup IdsOf(cluster),
                                    Append(zones, ZoneOf(cluster, <<seed, Len(zones) + 1>>)), seed)
                    ELSE AnchorLoopAnySize(candidates, i + 1, used, zones, seed)

\* The anchor loop of detectOutbreaks putting each new zone in front of the
\* zones found so far.
RECURSIVE AnchorLoopPrepending(_, _, _, _, _)
AnchorLoopPrepending(candidates, i, used, zones, seed) ==
  IF i > Len(candidates) THEN zones
  ELSE LET anchor == candidates[i]
           cluster == ClusterOf(anchor, candidates)
       IN  IF anchor.id \in used
             THEN AnchorLoopPrepending(candidates, i + 1, used, zones, seed)
             ELSE IF Len(cluster) >= MIN_REPORTS
                    THEN AnchorLoopPrepending(candidates, i + 1, used \cup IdsOf(cluster),
                                    <<ZoneOf(cluster, <<seed, Len(zones) + 1>>)>> \o zones, seed)
                    ELSE AnchorLoopPrepending(candidates, i + 1, used, zones, seed)

\* The anchor loop of detectOutbreaks: for (const anchor of candidates),
\* from the i-th candidate on, with the `used` set and the zones pushed so
\* far.  The k-th zone of a call gets the id <<seed, k>>.
RECURSIVE AnchorLoop(_, _, _, _, _)
AnchorLoop(candidates, i, used, zones, seed) ==
  IF i > Len(candidates) THEN zones
  ELSE LET anchor == candidates[i]
           cluster == ClusterOf(anchor, candidates)
       IN  IF anchor.id \in used
             THEN AnchorLoop(candidates, i + 1, used, zones, seed)
             ELSE IF Len(cluster) >= MIN_REPORTS
                    THEN AnchorLoop(candidates, i + 1, used \cup IdsOf(cluster),
                                    Append(zones, ZoneOf(cluster, <<seed, Len(zones) + 1>>)), seed)
                    ELSE AnchorLoop(candidates, i + 1, used, zones, seed)

\* detectOutbreaks visiting the candidates in an order that depends on the
\* ids generateId hands out.
detectOutbreaksInSeedOrder(list, seed) ==
  LET candidates == Candidates(list)
      n == Len(candidates)
  IN  AnchorLoop(IF seed = "x" THEN candidates ELSE [i \in 1..n |-> candidates[n + 1 - i]],
                 1, {}, <<>>, seed)

detectOutbreaks(list, seed) == AnchorLoop(Candidates(list), 1, {}, <<>>, seed)

\* No collaborator call has rejected yet.
NoFault == [call |-> "none", key |-> "none", by |-> "none", n |-> 0]

-----------------------------------------------------------------------------
\* The callbacks passed to onReportSyncUpdate.
Listeners == {"l1", "l2", "l3"}

\* No listeners.forEach is running and notifyListeners has not been called.
NoForEach == [k |-> 0, len |-> 0, n |-> 0]

\* The callers of the store operations that run at the same time.
OpCallers == {"c1", "c2"}

\* The caller is in no store operation.
NoOp == [op |-> "none", id |-> 0, status |-> "pending", pc |-> "idle", awaiting |-> {},
         pending |-> <<>>, synced |-> <<>>, n |-> 0]

\* The store, the sync engine, the capture screen and the view after the
\* providers are mounted on an empty store.
InitIdle ==
  /\ listeners = <<>>
  /\ forEachIndex = NoForEach
  /\ received = [l \in Listeners |-> 0]
  /\ subscribed = {}
  /\ unsubscribed = {}
  /\ ops = [c \in OpCallers |-> NoOp]
  /\ fault = NoFault
  /\ raised = {}
  /\ isSyncing = FALSE
  /\ runs = 0
  /\ pc = [p \in SyncProcs |-> "idle"]
  /\ awaiting = [p \in SyncProcs |-> {}]
  /\ toSync = [p \in SyncProcs |-> <<>>]
  /\ finalReport = [p \in SyncProcs |-> NoReport]
  /\ rdPending = [p \in SyncProcs |-> <<>>]
  /\ rdSynced = [p \in SyncProcs |-> <<>>]
  /\ delivered = [p \in SyncProcs |-> <<>>]
  /\ processed = [p \in SyncProcs |-> <<>>]
  /\ nextId = 1
  /\ userPc = "idle"
  /\ draft = NoReport
  /\ userPending = <<>>
  /\ refreshAwaiting = {}
  /\ pendingRaw = <<>>
  /\ syncedRaw = <<>>
  /\ storedAtStart = {}
  /\ reports = <<>>
  /\ called = [p \in SyncProcs |-> <<>>]
  /\ lastFetch = "none"
  /\ storeCall = NoCall

InitApp ==
  /\ InitIdle
  /\ pendingItem = <<>>
  /\ syncedItem = <<>>
  /\ server = <<>>
  /\ refreshPc = "idle"
  /\ local = <<>>
  /\ isRefreshing = FALSE

Init ==
  /\ InitApp
  /\ allReports = <<>>
  /\ now = StartOfClock
  /\ outbreakZones = <<>>
  /\ previousZones = <<>>
  /\ detectedAt = <<>>

-----------------------------------------------------------------------------
(* NetInfo *)

\* NetInfo.addEventListener callback (startNetworkListener): an event with
\* state.isConnected arrives and runSync() is called.
NetInfoEvent ==
  /\ pc["listener"] = "idle"
  /\ runs < MaxRuns
  /\ pc' = [pc EXCEPT !["listener"] = RunSyncEntry(isSyncing)]
  /\ runs' = IF isSyncing THEN runs ELSE runs + 1
  /\ called' = [called EXCEPT !["listener"] = <<>>]
  /\ UNCHANGED <<storeVars, server, isSyncing, awaiting, toSync, finalReport, rdPending,
                 rdSynced, delivered, processed, userVars, refreshVars, storeCall, detectVars, faultVars,
                 listenerVars, opVars>>

-----------------------------------------------------------------------------
(* runSync *)

\* (a variant of runSync that goes on whatever NetInfo.fetch() reports)
NetFetchIgnoringOffline(p) ==
  /\ pc[p] = "netFetch"
  /\ \E isConnected \in BOOLEAN :
       called' = [called EXCEPT
                    ![p] = Append(called[p], GatewayCall("NetInfo.fetch", isConnected, NoPrediction))]
  /\ isSyncing' = TRUE
  /\ pc' = [pc EXCEPT ![p] = "getPending"]
  /\ UNCHANGED <<runs, storeVars, server, awaiting, toSync, finalReport, rdPending,
                 rdSynced, delivered, processed, userVars, refreshVars, storeCall, detectVars, faultVars,
                 listenerVars, opVars>>

\* lines 41-46: NetInfo.fetch() resolves; offline returns, otherwise the guard
\* is set and getPendingReports is called.
NetFetch(p) ==
  /\ pc[p] = "netFetch"
  /\ \E isConnected \in BOOLEAN :
       /\ called' = [called EXCEPT
                       ![p] = Append(called[p], GatewayCall("NetInfo.fetch", isConnected, NoPrediction))]
       /\ IF isConnected
          THEN /\ isSyncing' = TRUE
               /\ pc' = [pc EXCEPT ![p] = "getPending"]
          ELSE /\ pc' = [pc EXCEPT ![p] = "idle"]
               /\ UNCHANGED isSyncing
  /\ UNCHANGED <<runs, storeVars, server, awaiting, toSync, finalReport, rdPending,
                 rdSynced, delivered, processed, userVars, refreshVars, storeCall, detectVars, faultVars,
                 listenerVars, opVars>>

\* lines 46-53: getPendingReports resolves, toSync is selected; an empty
\* selection ends the pass (finally: isSyncing = false), otherwise the loop
\* calls updateReportStatus(report.id, 'syncing').
GetPending(p) ==
  /\ pc[p] = "getPending"
  /\ LET selected == SelectToSync(pendingItem)
     IN  IF selected = <<>>
         THEN /\ isSyncing' = FALSE
              /\ pc' = [pc EXCEPT ![p] = "idle"]
              /\ UNCHANGED toSync
         ELSE /\ toSync' = [toSync EXCEPT ![p] = selected]
              /\ pc' = [pc EXCEPT ![p] = "syncingRead"]
              /\ UNCHANGED isSyncing
  /\ delivered' = [delivered EXCEPT ![p] = <<>>]
  /\ processed' = [processed EXCEPT ![p] = <<>>]
  /\ called' = [called EXCEPT ![p] = <<>>]
  /\ UNCHANGED <<runs, storeVars, server, awaiting, finalReport, rdPending, rdSynced,
                 userVars, refreshVars, storeCall, detectVars, faultVars, listenerVars, opVars>>

\* updateReportStatus(report.id, 'syncing'), line 59 of storageService.ts:
\* getPendingReports resolves.
SyncingRead(p) ==
  /\ pc[p] = "syncingRead"
  /\ rdPending' = [rdPending EXCEPT ![p] = pendingItem]
  /\ delivered' = [delivered EXCEPT ![p] = <<>>]
  /\ pc' = [pc EXCEPT ![p] = "syncingWrite"]
  /\ UNCHANGED <<runs, storeVars, server, isSyncing, awaiting, toSync, finalReport,
                 rdSynced, processed, called, userVars, refreshVars, storeCall, detectVars, faultVars,
                 listenerVars, opVars>>

\* updateReportStatus(report.id, 'syncing'): setItem takes effect; then
\* lines 54-61 / 69: notifyListeners, finalReport, and the call of
\* predictSpecies (prediction missing) or uploadReport.
SyncingWrite(p) ==
  /\ pc[p] = "syncingWrite"
  /\ LET report == Head(toSync[p])
     IN  /\ pendingItem' = UpdateReportStatusResult(rdPending[p], report.id, "syncing")
         /\ delivered' = [delivered EXCEPT
                            ![p] = NotifyListeners(delivered[p], WithStatus(report, "syncing"))]
         /\ finalReport' = [finalReport EXCEPT ![p] = report]
         /\ pc' = [pc EXCEPT
                     ![p] = IF report.prediction = NoPrediction THEN "predict" ELSE "upload"]
  /\ rdPending' = [rdPending EXCEPT ![p] = <<>>]
  /\ UNCHANGED <<runs, syncedItem, server, isSyncing, awaiting, toSync, rdSynced,
                 processed, called, userVars, refreshVars, storeCall, detectVars, faultVars,
                 listenerVars, opVars>>

\* (a variant of runSync in which a rejection of predictSpecies is not
\* swallowed and ends the attempt like a failed upload)
PredictBlocking(p) ==
  /\ pc[p] = "predict"
  /\ \E ok \in BOOLEAN :
       /\ finalReport' = [finalReport EXCEPT
                            ![p].prediction = IF ok THEN SomePrediction ELSE NoPrediction]
       /\ called' = [called EXCEPT
                       ![p] = Append(called[p], GatewayCall("predictSpecies", ok, NoPrediction))]
       /\ pc' = [pc EXCEPT ![p] = IF ok THEN "upload" ELSE "failedRead"]
  /\ UNCHANGED <<runs, storeVars, server, isSyncing, awaiting, toSync, rdPending,
                 rdSynced, delivered, processed, userVars, refreshVars, storeCall, detectVars, faultVars,
                 listenerVars, opVars>>

\* lines 60-65: predictSpecies resolves or rejects; a rejection is swallowed.
Predict(p) ==
  /\ pc[p] = "predict"
  /\ \E ok \in BOOLEAN :
       /\ finalReport' = [finalReport EXCEPT
                            ![p].prediction = IF ok THEN SomePrediction ELSE NoPrediction]
       /\ called' = [called EXCEPT
                       ![p] = Append(called[p], GatewayCall("predictSpecies", ok, NoPrediction))]
  /\ pc' = [pc EXCEPT ![p] = "upload"]
  /\ UNCHANGED <<runs, storeVars, server, isSyncing, awaiting, toSync, rdPending,
                 rdSynced, delivered, processed, userVars, refreshVars, storeCall, detectVars, faultVars,
                 listenerVars, opVars>>

\* lines 69-82 / 84-86: uploadReport resolves (markReportSynced is called) or
\* rejects (catch: updateReportStatus(report.id, 'failed') is called).
Upload(p) ==
  /\ pc[p] = "upload"
  /\ \/ /\ server' = ServerAccept(server, finalReport[p])
        /\ pc' = [pc EXCEPT ![p] = "markRead"]
        /\ awaiting' = [awaiting EXCEPT ![p] = StorageKeys]
        /\ called' = [called EXCEPT
                        ![p] = Append(called[p],
                                      GatewayCall("uploadReport", TRUE, finalReport[p].prediction))]
     \/ /\ pc' = [pc EXCEPT ![p] = "failedRead"]
        /\ called' = [called EXCEPT
                        ![p] = Append(called[p],
                                      GatewayCall("uploadReport", FALSE, finalReport[p].prediction))]
        /\ UNCHANGED <<server, awaiting>>
  /\ UNCHANGED <<runs, storeVars, isSyncing, toSync, finalReport, rdPending, rdSynced,
                 delivered, processed, userVars, refreshVars, storeCall, detectVars, faultVars,
                 listenerVars, opVars>>

\* The end of one iteration of the loop: notifyListeners with the final
\* status, then the next iteration calls updateReportStatus(.., 'syncing'),
\* or the loop is over and finally clears the guard.
EndRecord(p, status) ==
  LET report == IF status = "uploaded" THEN finalReport[p] ELSE Head(toSync[p])
  IN  /\ delivered' = [delivered EXCEPT
                         ![p] = NotifyListeners(delivered[p], WithStatus(report, status))]
      /\ toSync' = [toSync EXCEPT ![p] = Tail(toSync[p])]
      /\ finalReport' = [finalReport EXCEPT ![p] = NoReport]
      /\ rdPending' = [rdPending EXCEPT ![p] = <<>>]
      /\ rdSynced' = [rdSynced EXCEPT ![p] = <<>>]
      /\ awaiting' = [awaiting EXCEPT ![p] = {}]
      /\ called' = [called EXCEPT ![p] = <<>>]
      /\ IF Tail(toSync[p]) = <<>>
         THEN /\ isSyncing' = FALSE
              /\ pc' = [pc EXCEPT ![p] = "idle"]
              /\ processed' = [processed EXCEPT ![p] = <<>>]
         ELSE /\ pc' = [pc EXCEPT ![p] = "syncingRead"]
              /\ processed' = [processed EXCEPT
                                 ![p] = Append(processed[p], <<report.id, status>>)]
              /\ UNCHANGED isSyncing

\* markReportSynced, lines 70-76: one of the two reads of the Promise.all
\* resolves; after both, target is looked up: not found returns (runSync goes
\* on to notify 'uploaded'), found issues the two setItem calls.
MarkRead(p, k) ==
  /\ pc[p] = "markRead"
  /\ k \in awaiting[p]
  /\ LET pending == IF k = "pending" THEN pendingItem ELSE rdPending[p]
         synced == IF k = "synced" THEN syncedItem ELSE rdSynced[p]
         id == finalReport[p].id
     IN  IF awaiting[p] # {k}
         THEN /\ awaiting' = [awaiting EXCEPT ![p] = awaiting[p] \ {k}]
              /\ rdPending' = [rdPending EXCEPT ![p] = pending]
              /\ rdSynced' = [rdSynced EXCEPT ![p] = synced]
              /\ UNCHANGED <<pc, isSyncing, toSync, finalReport, delivered, processed, called>>
         ELSE IF HasId(pending, id)
              THEN /\ awaiting' = [awaiting EXCEPT ![p] = StorageKeys]
                   /\ rdPending' = [rdPending EXCEPT ![p] = pending]
                   /\ rdSynced' = [rdSynced EXCEPT ![p] = synced]
                   /\ pc' = [pc EXCEPT ![p] = "markWrite"]
                   /\ UNCHANGED <<isSyncing, toSync, finalReport, delivered, processed, called>>
              ELSE EndRecord(p, "uploaded")
  /\ UNCHANGED <<runs, storeVars, server, userVars, refreshVars, storeCall, detectVars, faultVars,
                 listenerVars, opVars>>

\* markReportSynced, lines 78-84: one of the two setItem calls takes effect;
\* after both, runSync notifies 'uploaded'.
MarkWrite(p, k) ==
  /\ pc[p] = "markWrite"
  /\ k \in awaiting[p]
  /\ IF k = "pending"
     THEN /\ pendingItem' = MarkSyncedNewPending(rdPending[p], finalReport[p].id)
          /\ UNCHANGED syncedItem
     ELSE /\ syncedItem' = MarkSyncedNewSynced(rdPending[p], rdSynced[p], finalReport[p].id)
          /\ UNCHANGED pendingItem
  /\ IF awaiting[p] # {k}
     THEN /\ awaiting' = [awaiting EXCEPT ![p] = awaiting[p] \ {k}]
          /\ UNCHANGED <<pc, isSyncing, toSync, finalReport, rdPending, rdSynced, delivered,
                         processed, called>>
     ELSE EndRecord(p, "uploaded")
  /\ UNCHANGED <<runs, server, userVars, refreshVars, storeCall, detectVars, faultVars, listenerVars, opVars>>

\* updateReportStatus(report.id, 'failed'): getPendingReports resolves.
FailedRead(p) ==
  /\ pc[p] = "failedRead"
  /\ rdPending' = [rdPending EXCEPT ![p] = pendingItem]
  /\ pc' = [pc EXCEPT ![p] = "failedWrite"]
  /\ UNCHANGED <<runs, storeVars, server, isSyncing, awaiting, toSync, finalReport,
                 rdSynced, delivered, processed, called, userVars, refreshVars, storeCall, detectVars, faultVars,
                 listenerVars, opVars>>

\* updateReportStatus(report.id, 'failed'): setItem takes effect; then
\* line 87 notifies 'failed'.
FailedWrite(p) ==
  /\ pc[p] = "failedWrite"
  /\ pendingItem' = UpdateReportStatusResult(rdPending[p], Head(toSync[p]).id, "failed")
  /\ EndRecord(p, "failed")
  /\ UNCHANGED <<runs, syncedItem, server, userVars, refreshVars, storeCall, detectVars, faultVars,
                 listenerVars, opVars>>

-----------------------------------------------------------------------------
(* handleSave (ReportScreen.tsx) and addReport *)

\* handleSave builds the report (prediction: finalPred, an element of
\* `predictions`) and calls addReport -> saveReport, whose getPendingReports
\* resolves.
SaveRead(predictions) ==
  /\ userPc = "idle"
  /\ nextId <= MaxReports
  /\ \E prediction \in predictions :
       draft' = [id |-> nextId, timestamp |-> TimestampOf(nextId),
                 prediction |-> prediction, syncStatus |-> "pending"]
  /\ nextId' = nextId + 1
  /\ userPending' = pendingItem
  /\ userPc' = "saveWrite"
  /\ UNCHANGED <<storeVars, server, syncVars, refreshVars, storeCall, detectVars, faultVars,
                 listenerVars, opVars>>

\* saveReport: setItem takes effect; addReport goes on to refresh(), and
\* handleSave then calls uploadReport.
SaveWrite ==
  /\ userPc = "saveWrite"
  /\ pendingItem' = SaveReportResult(userPending, draft)
  /\ userPending' = <<>>
  /\ userPc' = "directUpload"
  /\ UNCHANGED <<syncedItem, server, syncVars, nextId, draft, refreshVars, storeCall, detectVars, faultVars,
                 listenerVars, opVars>>

\* handleSave, lines 256-269: uploadReport resolves, or rejects and
\* triggerSync() is called without being awaited: runSync() is entered.
DirectUpload ==
  /\ userPc = "directUpload"
  /\ \/ /\ server' = ServerAccept(server, draft)
        /\ UNCHANGED <<pc, runs, called>>
     \/ /\ IF pc["trigger"] = "idle" /\ runs < MaxRuns
           THEN /\ pc' = [pc EXCEPT !["trigger"] = RunSyncEntry(isSyncing)]
                /\ runs' = IF isSyncing THEN runs ELSE runs + 1
                /\ called' = [called EXCEPT !["trigger"] = <<>>]
           ELSE UNCHANGED <<pc, runs, called>>
        /\ UNCHANGED server
  /\ userPc' = "idle"
  /\ draft' = NoReport
  /\ UNCHANGED <<storeVars, isSyncing, awaiting, toSync, finalReport, rdPending,
                 rdSynced, delivered, processed, nextId, userPending, refreshVars, storeCall, detectVars, faultVars,
                 listenerVars, opVars>>

-----------------------------------------------------------------------------
(* refresh (ReportsContext.tsx) *)

\* refresh() is called: by the sync listener on every notification, by
\* addReport, by triggerSync, on mount, or by the user (onRefresh={refresh}).
\* setIsRefreshing(true), then getAllReports issues its two getItem calls.
\* A call changes nothing in the store or in the sync engine.
RefreshCall ==
  /\ refreshPc = "idle"
  /\ refreshPc' = "getAll"
  /\ refreshAwaiting' = StorageKeys
  /\ isRefreshing' = TRUE
  /\ lastFetch' = "none"
  /\ UNCHANGED <<storeVars, server, syncVars, userVars, pendingRaw, syncedRaw, storedAtStart,
                 local, reports, storeCall, detectVars, faultVars, listenerVars, opVars>>

\* getAllReports: one of the two getItem calls of the Promise.all resolves;
\* after both, the lists are concatenated and sorted, and refresh calls
\* fetchAllReports.
GetAllRead(k) ==
  /\ refreshPc = "getAll"
  /\ k \in refreshAwaiting
  /\ LET pending == IF k = "pending" THEN pendingItem ELSE pendingRaw
         synced == IF k = "synced" THEN syncedItem ELSE syncedRaw
     IN  IF refreshAwaiting # {k}
         THEN /\ refreshAwaiting' = refreshAwaiting \ {k}
              /\ pendingRaw' = pending
              /\ syncedRaw' = synced
              /\ storedAtStart' = IdsOf(pendingItem) \cup IdsOf(syncedItem)
              /\ UNCHANGED <<refreshPc, local>>
         ELSE /\ refreshAwaiting' = {}
              /\ pendingRaw' = <<>>
              /\ syncedRaw' = <<>>
              /\ local' = GetAllReportsResult(pending, synced)
              /\ storedAtStart' = storedAtStart \cap (IdsOf(pendingItem) \cup IdsOf(syncedItem))
              /\ refreshPc' = "fetch"
  /\ UNCHANGED <<storeVars, server, syncVars, userVars, reports, isRefreshing, lastFetch,
                 storeCall, detectVars, faultVars, listenerVars, opVars>>

\* refresh, lines 52-71: fetchAllReports resolves with the server's list or
\* rejects (serverReports stays []); the merged list is published.
\* setOutbreakZones(detectOutbreaks(all)) leaves outbreakZones empty: the list
\* has at most MaxReports records, fewer than MIN_REPORTS.
FetchAllReports ==
  /\ refreshPc = "fetch"
  /\ \E ok \in BOOLEAN :
       /\ reports' = MergeReports(FetchedReports(ok, server), local)
       /\ lastFetch' = IF ok THEN "resolved" ELSE "rejected"
  /\ isRefreshing' = FALSE
  /\ refreshPc' = "idle"
  /\ local' = <<>>
  /\ storedAtStart' = {}
  /\ UNCHANGED <<storeVars, server, syncVars, userVars, refreshAwaiting,
                 pendingRaw, syncedRaw, storeCall, detectVars, faultVars, listenerVars, opVars>>

\* A second refresh() call, made while the first one is awaiting
\* fetchAllReports (the sync listener, addReport and triggerSync call
\* refresh() whether or not a call is in flight), whose getItem and fetch calls
\* all resolve before the fetch of the first call does: it reads the store,
\* fetches, publishes and clears isRefreshing.
RefreshOvertaking ==
  /\ refreshPc = "fetch"
  /\ \E ok \in BOOLEAN :
       /\ reports' = MergeReports(FetchedReports(ok, server),
                                  GetAllReportsResult(pendingItem, syncedItem))
       /\ lastFetch' = IF ok THEN "resolved" ELSE "rejected"
  /\ isRefreshing' = FALSE
  /\ UNCHANGED <<storeVars, server, syncVars, userVars, refreshPc, refreshAwaiting, pendingRaw,
                 syncedRaw, storedAtStart, local, storeCall, detectVars, faultVars, listenerVars, opVars>>

-----------------------------------------------------------------------------
(* The store operations called one after the other by a single caller: each
   call runs from its reads to its last write with no other operation in
   between. *)

\* The reports a caller hands to saveReport.
ReportsToSave ==
  {[id |-> id, timestamp |-> TimestampOf(id), prediction |-> prediction, syncStatus |-> "pending"] :
     id \in ReportIds, prediction \in {NoPrediction, SomePrediction}}

\* The record of a call: its arguments and the buckets it found.
StoreCallOf(op, id, status, report) ==
  [n |-> storeCall.n + 1, op |-> op, id |-> id, status |-> status, report |-> report,
   pending |-> pendingItem, synced |-> syncedItem]

\* (a variant of markReportSynced without the check of line 76: the spread of
\* an undefined target gives a record with a syncStatus only)
MarkReportSyncedUnchecked(id) ==
  /\ storeCall.n < MaxCalls
  /\ pendingItem' = MarkSyncedNewPending(pendingItem, id)
  /\ syncedItem' = IF HasId(pendingItem, id)
                   THEN MarkSyncedNewSynced(pendingItem, syncedItem, id)
                   ELSE Append(syncedItem, WithStatus(NoReport, "uploaded"))
  /\ storeCall' = StoreCallOf("markReportSynced", id, "uploaded", NoReport)
  /\ UNCHANGED <<server, syncVars, userVars, refreshVars, detectVars, faultVars, listenerVars, opVars>>

\* saveReport(report), lines 48-56
SaveReport(report) ==
  /\ storeCall.n < MaxCalls
  /\ pendingItem' = SaveReportResult(pendingItem, report)
  /\ storeCall' = StoreCallOf("saveReport", report.id, report.syncStatus, report)
  /\ UNCHANGED <<syncedItem, server, syncVars, userVars, refreshVars, detectVars, faultVars,
                 listenerVars, opVars>>

\* updateReportStatus(id, status), lines 58-65
UpdateReportStatus(id, status) ==
  /\ storeCall.n < MaxCalls
  /\ pendingItem' = UpdateReportStatusResult(pendingItem, id, status)
  /\ storeCall' = StoreCallOf("updateReportStatus", id, status, NoReport)
  /\ UNCHANGED <<syncedItem, server, syncVars, userVars, refreshVars, detectVars, faultVars,
                 listenerVars, opVars>>

\* markReportSynced(id), lines 69-85: returns before any write when the
\* target is not in the pending list.
MarkReportSynced(id) ==
  /\ storeCall.n < MaxCalls
  /\ IF HasId(pendingItem, id)
     THEN /\ pendingItem' = MarkSyncedNewPending(pendingItem, id)
          /\ syncedItem' = MarkSyncedNewSynced(pendingItem, syncedItem, id)
     ELSE UNCHANGED <<pendingItem, syncedItem>>
  /\ storeCall' = StoreCallOf("markReportSynced", id, "uploaded", NoReport)
  /\ UNCHANGED <<server, syncVars, userVars, refreshVars, detectVars, faultVars, listenerVars, opVars>>

\* deleteReport(id), lines 89-104
DeleteReport(id) ==
  /\ storeCall.n < MaxCalls
  /\ pendingItem' = DeleteNewPending(pendingItem, id)
  /\ syncedItem' = DeleteNewSynced(syncedItem, id)
  /\ storeCall' = StoreCallOf("deleteReport", id, "pending", NoReport)
  /\ UNCHANGED <<server, syncVars, userVars, refreshVars, detectVars, faultVars, listenerVars, opVars>>

NextStore ==
  \/ \E report \in ReportsToSave : SaveReport(report)
  \/ \E id \in ReportIds, status \in SyncStatus : UpdateReportStatus(id, status)
  \/ \E id \in ReportIds : MarkReportSynced(id)
  \/ \E id \in ReportIds : DeleteReport(id)

SpecStore == Init /\ [][NextStore]_vars

-----------------------------------------------------------------------------
(* The store operations called by two callers, each at its await points *)

\* Number of store operations one caller makes one after the other.
MaxOpCalls == 2

StoreOps == {"saveReport", "updateReportStatus", "markReportSynced", "deleteReport"}

\* The items an operation reads: getPendingReports alone, or the Promise.all
\* of getPendingReports and getSyncedReports.
ReadsOf(op) == IF op \in {"saveReport", "updateReportStatus"} THEN {"pending"} ELSE StorageKeys

\* The items an operation writes: one setItem, or the Promise.all of two.
WritesOf(op) == IF op \in {"saveReport", "updateReportStatus"} THEN {"pending"} ELSE StorageKeys

\* The operation of a caller has returned.
OpReturned(c) == [NoOp EXCEPT !.n = ops[c].n]

\* A caller calls a store operation: its getItem calls are issued.
OpCall(c, op, id, status, limit) ==
  /\ ops[c].pc = "idle"
  /\ ops[c].n < limit
  /\ ops' = [ops EXCEPT ![c] = [op |-> op, id |-> id, status |-> status, pc |-> "read",
                                awaiting |-> ReadsOf(op), pending |-> <<>>, synced |-> <<>>,
                                n |-> ops[c].n + 1]]
  /\ UNCHANGED <<storeVars, server, syncVars, userVars, refreshVars, storeCall, detectVars,
                 faultVars, listenerVars>>

\* One getItem of the operation resolves.  After the last one the operation
\* computes what it writes and issues its setItem calls; markReportSynced
\* returns when the pending bucket it read has no record of the id (line 76).
OpRead(c, k) ==
  /\ ops[c].pc = "read"
  /\ k \in ops[c].awaiting
  /\ LET pending == IF k = "pending" THEN pendingItem ELSE ops[c].pending
         synced == IF k = "synced" THEN syncedItem ELSE ops[c].synced
     IN  ops' = [ops EXCEPT ![c] =
                   IF ops[c].awaiting # {k}
                     THEN [ops[c] EXCEPT !.awaiting = ops[c].awaiting \ {k},
                                         !.pending = pending, !.synced = synced]
                   ELSE IF ops[c].op = "markReportSynced" /\ ~HasId(pending, ops[c].id)
                     THEN OpReturned(c)
                     ELSE [ops[c] EXCEPT !.pc = "write", !.awaiting = WritesOf(ops[c].op),
                                         !.pending = pending, !.synced = synced]]
  /\ UNCHANGED <<storeVars, server, syncVars, userVars, refreshVars, storeCall, detectVars,
                 faultVars, listenerVars>>

\* What the operation of a caller writes to the pending item.
OpNewPending(c) ==
  LET o == ops[c]
  IN  CASE o.op = "saveReport" ->
             SaveReportResult(o.pending, [id |-> o.id, timestamp |-> TimestampOf(o.id),
                                          prediction |-> NoPrediction, syncStatus |-> o.status])
        [] o.op = "updateReportStatus" -> UpdateReportStatusResult(o.pending, o.id, o.status)
        [] o.op = "markReportSynced" -> MarkSyncedNewPending(o.pending, o.id)
        [] OTHER -> DeleteNewPending(o.pending, o.id)

\* What the operation of a caller writes to the synced item.
OpNewSynced(c) ==
  LET o == ops[c]
  IN  IF o.op = "markReportSynced"
        THEN MarkSyncedNewSynced(o.pending, o.synced, o.id)
        ELSE DeleteNewSynced(o.synced, o.id)

\* One setItem of the operation takes effect; after the last one the
\* operation returns.
OpWrite(c, k) ==
  /\ ops[c].pc = "write"
  /\ k \in ops[c].awaiting
  /\ IF k = "pending"
     THEN /\ pendingItem' = OpNewPending(c)
          /\ UNCHANGED syncedItem
     ELSE /\ syncedItem' = OpNewSynced(c)
          /\ UNCHANGED pendingItem
  /\ ops' = [ops EXCEPT ![c] = IF ops[c].awaiting = {k}
                                 THEN OpReturned(c)
                                 ELSE [ops[c] EXCEPT !.awaiting = ops[c].awaiting \ {k}]]
  /\ UNCHANGED <<server, syncVars, userVars, refreshVars, storeCall, detectVars, faultVars,
                 listenerVars>>

NextOps ==
  \/ \E c \in OpCallers, op \in StoreOps, id \in ReportIds, status \in SyncStatus \ {"uploaded"} :
       /\ op # "updateReportStatus" => status = "pending"
       /\ OpCall(c, op, id, status, MaxOpCalls)
  \/ \E c \in OpCallers, k \in StorageKeys : OpRead(c, k)
  \/ \E c \in OpCallers, k \in StorageKeys : OpWrite(c, k)

SpecOps == Init /\ [][NextOps]_vars

-----------------------------------------------------------------------------
(* onReportSyncUpdate and notifyListeners *)

\* Number of notifyListeners calls.
MaxNotifications == 2

\* The returned unsubscribe function: indexOf, then splice(idx, 1) on the
\* array itself; nothing happens when the listener is not in the array.
Splice(array, l) == SelectSeq(array, LAMBDA x : x # l)

\* Array.prototype.forEach after the callback at index k returned: the next
\* index, or the end when the length read at the start is passed.
AfterIndex(f) == IF f.k + 1 > f.len THEN [f EXCEPT !.k = 0, !.len = 0] ELSE [f EXCEPT !.k = f.k + 1]

\* onReportSyncUpdate(listener), line 27: listeners.push(listener).
Subscribe(l) ==
  /\ forEachIndex.k = 0
  /\ l \notin subscribed
  /\ listeners' = Append(listeners, l)
  /\ subscribed' = subscribed \cup {l}
  /\ UNCHANGED <<storeVars, server, syncVars, userVars, refreshVars, storeCall, detectVars,
                 faultVars, forEachIndex, received, unsubscribed, opVars>>

\* The unsubscribe function of a listener is called between notifications,
\* lines 28-31 (a second call finds idx = -1).
Unsubscribe(l) ==
  /\ forEachIndex.k = 0
  /\ l \in subscribed
  /\ listeners' = Splice(listeners, l)
  /\ unsubscribed' = unsubscribed \cup {l}
  /\ UNCHANGED <<storeVars, server, syncVars, userVars, refreshVars, storeCall, detectVars,
                 faultVars, forEachIndex, received, subscribed, opVars>>

\* notifyListeners(report), line 35: listeners.forEach reads the length of
\* the array and starts at its first index.
NotifyStart ==
  /\ forEachIndex.k = 0
  /\ forEachIndex.n < MaxNotifications
  /\ forEachIndex' = [k |-> IF listeners = <<>> THEN 0 ELSE 1,
                      len |-> Len(listeners), n |-> forEachIndex.n + 1]
  /\ received' = [l \in Listeners |-> 0]
  /\ UNCHANGED <<storeVars, server, syncVars, userVars, refreshVars, storeCall, detectVars,
                 faultVars, listeners, subscribed, unsubscribed, opVars>>

\* forEach calls the listener at index k; the listener returns, or calls the
\* unsubscribe function of a listener (its own or another one's) and returns.
Deliver(calls) ==
  /\ forEachIndex.k >= 1
  /\ forEachIndex.k <= Len(listeners)
  /\ calls \subseteq subscribed
  /\ Cardinality(calls) <= 1
  /\ received' = [received EXCEPT ![listeners[forEachIndex.k]] = @ + 1]
  /\ listeners' = IF calls = {} THEN listeners ELSE Splice(listeners, CHOOSE l \in calls : TRUE)
  /\ unsubscribed' = unsubscribed \cup calls
  /\ forEachIndex' = AfterIndex(forEachIndex)
  /\ UNCHANGED <<storeVars, server, syncVars, userVars, refreshVars, storeCall, detectVars,
                 faultVars, subscribed, opVars>>

\* forEach finds no element at index k (the array got shorter) and goes on.
SkipIndex ==
  /\ forEachIndex.k >= 1
  /\ forEachIndex.k > Len(listeners)
  /\ forEachIndex' = AfterIndex(forEachIndex)
  /\ UNCHANGED <<storeVars, server, syncVars, userVars, refreshVars, storeCall, detectVars,
                 faultVars, listeners, received, subscribed, unsubscribed, opVars>>

NextListeners ==
  \/ \E l \in Listeners : Subscribe(l)
  \/ \E l \in Listeners : Unsubscribe(l)
  \/ NotifyStart
  \/ \E calls \in SUBSET Listeners : Deliver(calls)
  \/ SkipIndex

SpecListeners == Init /\ [][NextListeners]_vars

-----------------------------------------------------------------------------
(* The merge of refresh applied to a server list and a local list *)

\* Number of reports the server list and the local store are drawn from.
MaxMergeIds == 3

MergeIds == 1..MaxMergeIds

\* Where a report is in the local store: in no bucket, in the pending bucket
\* with one of its three states, or in the synced bucket.
Places == {"absent", "pending", "syncing", "failed", "uploaded"}

\* The lists GET /reports can return: reports with distinct ids in any order.
ServerOrders ==
  {q \in UNION {[1..k -> MergeIds] : k \in 0..MaxMergeIds} :
     \A i \in 1..Len(q) : \A j \in 1..Len(q) : i # j => q[i] # q[j]}

\* The reports of the local store that are at one of the places, in the
\* order they were saved.
BucketOf(place, places) ==
  SelectSeq([id \in MergeIds |-> [id |-> id, timestamp |-> TimestampOf(id),
                                   prediction |-> SomePrediction, syncStatus |-> place[id]]],
            LAMBDA r : r.syncStatus \in places)

\* refresh is awaiting fetchAllReports: getAllReports has returned the local
\* list of a store drawn from the reports, and the server holds some of the
\* reports in some order.
InitMerge ==
  /\ InitIdle
  /\ allReports = <<>>
  /\ now = StartOfClock
  /\ outbreakZones = <<>>
  /\ previousZones = <<>>
  /\ detectedAt = <<>>
  /\ refreshPc = "fetch"
  /\ isRefreshing = TRUE
  /\ \E order \in ServerOrders, place \in [MergeIds -> Places] :
       /\ server = [i \in 1..Len(order) |->
                      [id |-> order[i], timestamp |-> TimestampOf(order[i]),
                       prediction |-> SomePrediction, syncStatus |-> "uploaded"]]
       /\ pendingItem = BucketOf(place, {"pending", "syncing", "failed"})
       /\ syncedItem = BucketOf(place, {"uploaded"})
       /\ local = GetAllReportsResult(BucketOf(place, {"pending", "syncing", "failed"}),
                                      BucketOf(place, {"uploaded"}))

NextMerge == FetchAllReports

SpecMerge == InitMerge /\ [][NextMerge]_vars

-----------------------------------------------------------------------------
(* detectOutbreaks applied to a list of reports: refresh calls
   setOutbreakZones(detectOutbreaks(all)) each time it publishes *)

\* Number of detectOutbreaks calls in one run of the model.
MaxDetectCalls == 2

\* Where the records of a list lie: at a point, RADIUS_KM north of it, and
\* twice RADIUS_KM north of it.
Positions == {0, RADIUS_KM, 2 * RADIUS_KM}

\* What tells a record of the list from a plain one (high risk, confidence
\* 0.80, captured a day before the clock starts).
ReportKinds == {"plain", "noPrediction", "lowRisk", "belowConfidence", "atConfidence",
                "atWindow", "pastWindow"}

ReportOfKind(id, position, kind) ==
  [id |-> id,
   coordinates |-> position,
   prediction |-> IF kind = "noPrediction" THEN NoPrediction ELSE SomePrediction,
   invasive_risk_level |-> IF kind = "lowRisk" THEN "low" ELSE "high",
   confidence_score |-> CASE kind = "belowConfidence" -> MIN_CONFIDENCE - 1
                          [] kind = "atConfidence" -> MIN_CONFIDENCE
                          [] OTHER -> MIN_CONFIDENCE + 5,
   timestamp |-> CASE kind = "atWindow" -> StartOfClock - TIME_WINDOW_DAYS * MsPerDay
                   [] kind = "pastWindow" -> StartOfClock - TIME_WINDOW_DAYS * MsPerDay - 1
                   [] OTHER -> StartOfClock - MsPerDay]

\* The list handed to detectOutbreaks: records with distinct ids, captured
\* before the clock starts, at most one of them not plain.
InitDetect ==
  /\ InitApp
  /\ now = StartOfClock
  /\ outbreakZones = <<>>
  /\ previousZones = <<>>
  /\ detectedAt = <<>>
  /\ \E n \in 0..MaxDetectReports :
       \E position \in [1..n -> Positions], odd \in 0..n, kind \in ReportKinds :
         allReports = [i \in 1..n |->
                         ReportOfKind(i, position[i], IF i = odd THEN kind ELSE "plain")]

\* A millisecond passes.
Tick ==
  /\ now < StartOfClock + MaxTicks
  /\ now' = now + 1
  /\ UNCHANGED <<storeVars, server, syncVars, userVars, refreshVars, storeCall, faultVars,
                 allReports, outbreakZones, previousZones, detectedAt, listenerVars, opVars>>

\* setOutbreakZones(detectOutbreaks(all))
SetOutbreakZones ==
  /\ Len(detectedAt) < MaxDetectCalls
  /\ \E seed \in ZoneIdSeeds : outbreakZones' = detectOutbreaks(allReports, seed)
  /\ previousZones' = outbreakZones
  /\ detectedAt' = Append(detectedAt, now)
  /\ UNCHANGED <<storeVars, server, syncVars, userVars, refreshVars, storeCall, faultVars,
                 allReports, now, listenerVars, opVars>>

NextDetect ==
  \/ Tick
  \/ SetOutbreakZones

SpecDetect == InitDetect /\ [][NextDetect]_vars

\* Between two detectOutbreaks calls the same records are put in the opposite
\* order.
Reorder ==
  /\ Len(detectedAt) = 1
  /\ Len(allReports) > 1
  /\ allReports[1].id < allReports[2].id
  /\ allReports' = [i \in 1..Len(allReports) |-> allReports[Len(allReports) + 1 - i]]
  /\ UNCHANGED <<storeVars, server, syncVars, userVars, refreshVars, storeCall, faultVars,
                 now, outbreakZones, previousZones, detectedAt, listenerVars, opVars>>

(* detectOutbreaks applied to a list and to the same records in the opposite
   order, at one clock reading. *)
NextPermute ==
  \/ SetOutbreakZones
  \/ Reorder

SpecPermute == InitDetect /\ [][NextPermute]_vars

-----------------------------------------------------------------------------
(* Collaborator calls that reject: NetInfo.fetch(), AsyncStorage.getItem and
   AsyncStorage.setItem.  getPendingReports and getSyncedReports catch the
   rejection of their getItem and return []; nothing in storageService.ts
   catches the rejection of a setItem. *)

\* Number of collaborator calls that reject in one run of the model.
MaxFaults == 1

\* The call of `by` that just rejected (key: the AsyncStorage item, if any).
Fault(call, key, by) == [call |-> call, key |-> key, by |-> by, n |-> fault.n + 1]

\* The calls a rejection of runSync() passes through: triggerSync awaits
\* runSync() without a catch (its caller handleSave attaches one),
\* startNetworkListener attaches .catch(console.warn) to runSync() itself.
Raising(p) == IF p = "trigger" THEN {"runSync", "triggerSync"} ELSE {"runSync"}

\* (runSync without its finally block: an exception leaves the guard set)
RaiseFromPassKeepingGuard(p) ==
  /\ pc' = [pc EXCEPT ![p] = "idle"]
  /\ toSync' = [toSync EXCEPT ![p] = <<>>]
  /\ finalReport' = [finalReport EXCEPT ![p] = NoReport]
  /\ rdPending' = [rdPending EXCEPT ![p] = <<>>]
  /\ rdSynced' = [rdSynced EXCEPT ![p] = <<>>]
  /\ awaiting' = [awaiting EXCEPT ![p] = {}]
  /\ processed' = [processed EXCEPT ![p] = <<>>]
  /\ called' = [called EXCEPT ![p] = <<>>]
  /\ raised' = raised \cup Raising(p)
  /\ UNCHANGED <<isSyncing, runs, delivered>>

\* runSync, lines 45-92: an exception thrown in the try block outside the
\* inner try, or in the catch block, leaves the loop; finally clears the
\* guard and the call rejects.
RaiseFromPass(p) ==
  /\ isSyncing' = FALSE
  /\ pc' = [pc EXCEPT ![p] = "idle"]
  /\ toSync' = [toSync EXCEPT ![p] = <<>>]
  /\ finalReport' = [finalReport EXCEPT ![p] = NoReport]
  /\ rdPending' = [rdPending EXCEPT ![p] = <<>>]
  /\ rdSynced' = [rdSynced EXCEPT ![p] = <<>>]
  /\ awaiting' = [awaiting EXCEPT ![p] = {}]
  /\ processed' = [processed EXCEPT ![p] = <<>>]
  /\ called' = [called EXCEPT ![p] = <<>>]
  /\ raised' = raised \cup Raising(p)
  /\ UNCHANGED <<runs, delivered>>

\* line 41: NetInfo.fetch() rejects; the await is outside the try block and
\* before the guard is set: the call rejects.
NetFetchRejects(p) ==
  /\ pc[p] = "netFetch"
  /\ fault.n < MaxFaults
  /\ fault' = Fault("NetInfo.fetch", "none", p)
  /\ pc' = [pc EXCEPT ![p] = "idle"]
  /\ raised' = raised \cup Raising(p)
  /\ UNCHANGED <<storeVars, server, isSyncing, runs, awaiting, toSync, finalReport, rdPending,
                 rdSynced, delivered, processed, called, userVars, refreshVars, storeCall,
                 detectVars, listenerVars, opVars>>

\* line 46: the getItem of getPendingReports rejects, getPendingReports
\* returns [], toSync is empty and the pass ends.
GetPendingRejects(p) ==
  /\ pc[p] = "getPending"
  /\ fault.n < MaxFaults
  /\ fault' = Fault("getItem", "pending", p)
  /\ isSyncing' = FALSE
  /\ pc' = [pc EXCEPT ![p] = "idle"]
  /\ delivered' = [delivered EXCEPT ![p] = <<>>]
  /\ processed' = [processed EXCEPT ![p] = <<>>]
  /\ called' = [called EXCEPT ![p] = <<>>]
  /\ UNCHANGED <<storeVars, server, runs, awaiting, toSync, finalReport, rdPending, rdSynced,
                 userVars, refreshVars, storeCall, detectVars, raised, listenerVars, opVars>>

\* updateReportStatus(report.id, 'syncing'): the getItem of getPendingReports
\* rejects and `pending` is [].
SyncingReadRejects(p) ==
  /\ pc[p] = "syncingRead"
  /\ fault.n < MaxFaults
  /\ fault' = Fault("getItem", "pending", p)
  /\ rdPending' = [rdPending EXCEPT ![p] = <<>>]
  /\ delivered' = [delivered EXCEPT ![p] = <<>>]
  /\ pc' = [pc EXCEPT ![p] = "syncingWrite"]
  /\ UNCHANGED <<storeVars, server, isSyncing, runs, awaiting, toSync, finalReport, rdSynced,
                 processed, called, userVars, refreshVars, storeCall, detectVars, raised,
                 listenerVars, opVars>>

\* updateReportStatus(report.id, 'syncing'), line 53: setItem rejects; the
\* await is outside the inner try.
SyncingWriteRejects(p) ==
  /\ pc[p] = "syncingWrite"
  /\ fault.n < MaxFaults
  /\ fault' = Fault("setItem", "pending", p)
  /\ RaiseFromPass(p)
  /\ UNCHANGED <<storeVars, server, userVars, refreshVars, storeCall, detectVars, listenerVars, opVars>>

\* markReportSynced: the getItem of getPendingReports or getSyncedReports
\* rejects and that list is []; the rest is as in MarkRead.
MarkReadRejects(p, k) ==
  /\ pc[p] = "markRead"
  /\ k \in awaiting[p]
  /\ fault.n < MaxFaults
  /\ fault' = Fault("getItem", k, p)
  /\ LET pending == IF k = "pending" THEN <<>> ELSE rdPending[p]
         synced == IF k = "synced" THEN <<>> ELSE rdSynced[p]
         id == finalReport[p].id
     IN  IF awaiting[p] # {k}
         THEN /\ awaiting' = [awaiting EXCEPT ![p] = awaiting[p] \ {k}]
              /\ rdPending' = [rdPending EXCEPT ![p] = pending]
              /\ rdSynced' = [rdSynced EXCEPT ![p] = synced]
              /\ UNCHANGED <<pc, isSyncing, toSync, finalReport, delivered, processed, called>>
         ELSE IF HasId(pending, id)
              THEN /\ awaiting' = [awaiting EXCEPT ![p] = StorageKeys]
                   /\ rdPending' = [rdPending EXCEPT ![p] = pending]
                   /\ rdSynced' = [rdSynced EXCEPT ![p] = synced]
                   /\ pc' = [pc EXCEPT ![p] = "markWrite"]
                   /\ UNCHANGED <<isSyncing, toSync, finalReport, delivered, processed, called>>
              ELSE EndRecord(p, "uploaded")
  /\ UNCHANGED <<runs, storeVars, server, userVars, refreshVars, storeCall, detectVars, raised,
                 listenerVars, opVars>>

\* markReportSynced, lines 78-84: the setItem that settles last rejects; the
\* await is inside the inner try, the catch block calls
\* updateReportStatus(report.id, 'failed').
MarkWriteRejects(p, k) ==
  /\ pc[p] = "markWrite"
  /\ awaiting[p] = {k}
  /\ fault.n < MaxFaults
  /\ fault' = Fault("setItem", k, p)
  /\ awaiting' = [awaiting EXCEPT ![p] = {}]
  /\ pc' = [pc EXCEPT ![p] = "failedRead"]
  /\ UNCHANGED <<storeVars, server, isSyncing, runs, toSync, finalReport, rdPending, rdSynced,
                 delivered, processed, called, userVars, refreshVars, storeCall, detectVars,
                 raised, listenerVars, opVars>>

\* updateReportStatus(report.id, 'failed'): the getItem rejects and `pending`
\* is [].
FailedReadRejects(p) ==
  /\ pc[p] = "failedRead"
  /\ fault.n < MaxFaults
  /\ fault' = Fault("getItem", "pending", p)
  /\ rdPending' = [rdPending EXCEPT ![p] = <<>>]
  /\ pc' = [pc EXCEPT ![p] = "failedWrite"]
  /\ UNCHANGED <<storeVars, server, isSyncing, runs, awaiting, toSync, finalReport, rdSynced,
                 delivered, processed, called, userVars, refreshVars, storeCall, detectVars,
                 raised, listenerVars, opVars>>

\* updateReportStatus(report.id, 'failed'), line 86: setItem rejects; the
\* await is in the catch block.
FailedWriteRejects(p) ==
  /\ pc[p] = "failedWrite"
  /\ fault.n < MaxFaults
  /\ fault' = Fault("setItem", "pending", p)
  /\ RaiseFromPass(p)
  /\ UNCHANGED <<storeVars, server, userVars, refreshVars, storeCall, detectVars, listenerVars, opVars>>

\* saveReport: the getItem of getPendingReports rejects and `pending` is [];
\* the rest is as in SaveRead.
SaveReadRejects(predictions) ==
  /\ userPc = "idle"
  /\ nextId <= MaxReports
  /\ fault.n < MaxFaults
  /\ fault' = Fault("getItem", "pending", "addReport")
  /\ \E prediction \in predictions :
       draft' = [id |-> nextId, timestamp |-> TimestampOf(nextId),
                 prediction |-> prediction, syncStatus |-> "pending"]
  /\ nextId' = nextId + 1
  /\ userPending' = <<>>
  /\ userPc' = "saveWrite"
  /\ UNCHANGED <<storeVars, server, syncVars, refreshVars, storeCall, detectVars, raised, listenerVars, opVars>>

\* saveReport: setItem rejects; saveReport and addReport reject, and the
\* catch block of handleSave (line 272) shows the error: no upload follows.
SaveWriteRejects ==
  /\ userPc = "saveWrite"
  /\ fault.n < MaxFaults
  /\ fault' = Fault("setItem", "pending", "addReport")
  /\ raised' = raised \cup {"saveReport", "addReport"}
  /\ userPending' = <<>>
  /\ userPc' = "idle"
  /\ draft' = NoReport
  /\ UNCHANGED <<storeVars, server, syncVars, nextId, refreshVars, storeCall, detectVars, listenerVars, opVars>>

\* getAllReports: one of the two getItem calls rejects, or the JSON.parse of
\* what it returned throws.  Both reads and both parses are in one try block:
\* the catch returns [], whatever the other getItem returns.
GetAllReadRejects(k) ==
  /\ refreshPc = "getAll"
  /\ k \in refreshAwaiting
  /\ fault.n < MaxFaults
  /\ fault' = Fault("getItem", k, "getAllReports")
  /\ refreshAwaiting' = {}
  /\ pendingRaw' = <<>>
  /\ syncedRaw' = <<>>
  /\ local' = <<>>
  /\ storedAtStart' = IF refreshAwaiting = StorageKeys
                         THEN IdsOf(pendingItem) \cup IdsOf(syncedItem)
                         ELSE storedAtStart \cap (IdsOf(pendingItem) \cup IdsOf(syncedItem))
  /\ refreshPc' = "fetch"
  /\ UNCHANGED <<storeVars, server, syncVars, userVars, reports, isRefreshing, lastFetch,
                 storeCall, detectVars, raised, listenerVars, opVars>>

\* One step of a runSync() invocation in which a collaborator call rejects.
SyncStepRejects(p) ==
  \/ NetFetchRejects(p)
  \/ GetPendingRejects(p)
  \/ SyncingReadRejects(p)
  \/ SyncingWriteRejects(p)
  \/ \E k \in StorageKeys : MarkReadRejects(p, k)
  \/ \E k \in StorageKeys : MarkWriteRejects(p, k)
  \/ FailedReadRejects(p)
  \/ FailedWriteRejects(p)

-----------------------------------------------------------------------------
\* One runSync() invocation, from its first await to its return.
SyncStep(p) ==
  \/ NetFetch(p)
  \/ GetPending(p)
  \/ SyncingRead(p)
  \/ SyncingWrite(p)
  \/ Upload(p)
  \/ \E k \in StorageKeys : MarkRead(p, k)
  \/ \E k \in StorageKeys : MarkWrite(p, k)
  \/ FailedRead(p)
  \/ FailedWrite(p)

(* The sync engine and the capture screen: runSync started by connectivity
   events and by triggerSync, against the reports handleSave stores.  Every
   captured report carries its prediction. *)
Next ==
  \/ NetInfoEvent
  \/ \E p \in SyncProcs : SyncStep(p)
  \/ SaveRead({SomePrediction})
  \/ SaveWrite
  \/ DirectUpload

Spec == Init /\ [][Next]_vars

\* Number of deleteReport calls made while passes run.
MaxDeletes == 1

\* deleteReport(id) is called while the sync engine and the capture screen run.
DeleteCall == \E id \in ReportIds : OpCall("c1", "deleteReport", id, "pending", MaxDeletes)

(* The passes started by triggerSync and the capture screen, with a
   deleteReport call stepping at its await points. *)
NextDelete ==
  \/ SyncStep("trigger")
  \/ SaveRead({SomePrediction})
  \/ SaveWrite
  \/ DirectUpload
  \/ DeleteCall
  \/ \E k \in StorageKeys : OpRead("c1", k)
  \/ \E k \in StorageKeys : OpWrite("c1", k)

SpecDelete == Init /\ [][NextDelete]_vars

(* The reports view: refresh() running against the capture screen and the
   passes started by triggerSync (no connectivity event arrives); reports are
   captured with or without a prediction. *)
NextView ==
  \/ SyncStep("trigger")
  \/ Predict("trigger")
  \/ SaveRead({NoPrediction, SomePrediction})
  \/ SaveWrite
  \/ DirectUpload
  \/ RefreshCall
  \/ \E k \in StorageKeys : GetAllRead(k)
  \/ FetchAllReports

SpecView == Init /\ [][NextView]_vars

(* The reports view with refresh() calls that overlap. *)
NextRefresh ==
  \/ NextView
  \/ RefreshOvertaking

SpecRefresh == Init /\ [][NextRefresh]_vars

(* The sync engine and the capture screen with collaborator calls that
   reject. *)
NextFaults ==
  \/ Next
  \/ \E p \in SyncProcs : SyncStepRejects(p)
  \/ SaveReadRejects({SomePrediction})
  \/ SaveWriteRejects

SpecFaults == Init /\ [][NextFaults]_vars

(* A single caller that calls the store operations and refresh() one after
   the other, awaiting each, on a store whose items can be unreadable. *)
NextReads ==
  \/ refreshPc = "idle" /\ NextStore
  \/ RefreshCall
  \/ \E k \in StorageKeys : GetAllRead(k)
  \/ \E k \in StorageKeys : GetAllReadRejects(k)
  \/ FetchAllReports

SpecReads == Init /\ [][NextReads]_vars

-----------------------------------------------------------------------------
(* State functions used by the properties *)

\* p is executing a pass: it has set the guard (line 44) and has not yet
\* reached finally (line 91).
InPass(p) == pc[p] \notin {"idle", "netFetch"}

\* A store operation has been called and has not returned.
StoreOpInFlight ==
  \/ userPc = "saveWrite"
  \/ \E p \in SyncProcs : pc[p] \in {"syncingWrite", "markRead", "markWrite", "failedWrite"}

\* The ids whose saveReport call has returned.
SavedIds == {id \in ReportIds : id < nextId /\ ~(userPc = "saveWrite" /\ draft.id = id)}

Quiescent == userPc = "idle" /\ \A p \in SyncProcs : pc[p] = "idle"

HasWithStatus(list, id, status) ==
  \E i \in 1..Len(list) : list[i].id = id /\ list[i].syncStatus = status

\* The syncStatus under which the store holds id: uploaded once it is in the
\* synced bucket, else that of its pending copy.
StoredStatus(pending, synced, id) ==
  IF HasId(synced, id) THEN "uploaded"
  ELSE IF HasId(pending, id) THEN FindById(pending, id).syncStatus
  ELSE "none"

\* How many times the record r occurs in list.
CountOf(list, r) == Cardinality({i \in 1..Len(list) : list[i] = r})

\* refresh is publishing: fetchAllReports has ended and setReports is called.
Publishing == refreshPc = "fetch" /\ refreshPc' = "idle"

\* The ids of the records a pass has finished, in the order it finished them.
ProcessedIds(p) == [i \in 1..Len(processed[p]) |-> processed[p][i][1]]

\* The ids of the records a pass has still to finish, the current one first.
ToSyncIds(p) == [i \in 1..Len(toSync[p]) |-> toSync[p][i].id]

\* The four edges of the per-record state machine.
SyncEdges == {<<"pending", "syncing">>, <<"failed", "syncing">>,
              <<"syncing", "uploaded">>, <<"syncing", "failed">>}

-----------------------------------------------------------------------------
\* C1: at most one synchronization pass is in flight at any time, whatever
\* the interleaving of connectivity events and triggerSync calls: while one
\* invocation of runSync is between setting and clearing the guard, no other
\* invocation is selecting, updating, uploading or notifying.
C1_AtMostOnePassInFlight ==
  \A p, q \in SyncProcs : p # q => ~(InPass(p) /\ InPass(q))

\* C2: after any sequence of completed store operations every saved record
\* id is in exactly one of the pending and synced buckets.
C2_BucketExclusivity ==
  ~StoreOpInFlight =>
     \A id \in SavedIds : CountId(pendingItem, id) + CountId(syncedItem, id) = 1

\* C3: a getAllReports call interleaved with markReportSynced(id) never
\* returns id twice (seen in both buckets) and never misses an id the store
\* held during the whole call (seen in neither bucket).
C3_ReadersSeeOneBucket ==
  refreshPc = "fetch" =>
     \A id \in ReportIds :
        /\ CountId(local, id) <= 1
        /\ id \in storedAtStart => CountId(local, id) >= 1

\* C4: store mutations are atomic with respect to each other: when the write
\* of saveReport(B) or of a sync pass's updateReportStatus / markReportSynced(A)
\* takes effect, it changes the store exactly as the operation applied to the
\* store of that instant would: B is kept, A keeps the bucket and syncStatus
\* the pass gave it, no write is lost and no stale copy is written back.
C4_MutationsSerializable ==
  [][ /\ (userPc = "saveWrite" /\ userPc' # "saveWrite")
           => pendingItem' = SaveReportResult(pendingItem, draft)
      /\ \A p \in SyncProcs :
           /\ (pc[p] = "syncingWrite" /\ pc'[p] # "syncingWrite")
                => pendingItem' = UpdateReportStatusResult(pendingItem, Head(toSync[p]).id, "syncing")
           /\ (pc[p] = "failedWrite" /\ pc'[p] # "failedWrite")
                => pendingItem' = UpdateReportStatusResult(pendingItem, Head(toSync[p]).id, "failed")
           /\ (pc[p] = "markWrite" /\ awaiting'[p] # awaiting[p] /\ pendingItem' # pendingItem)
                => pendingItem' = MarkSyncedNewPending(pendingItem, finalReport[p].id)
    ]_vars

\* C5: eventual delivery, in the form a finite run refutes.  A later pass
\* selects only the pending or failed records of the pending bucket, so a
\* saved record can still reach the synced bucket only if it is there
\* already, or is pending or failed in the pending bucket, or an operation
\* in flight can still put it there.  Whenever nothing is in flight, every
\* saved record is uploaded in the synced bucket or waits, pending or failed,
\* for the next pass.
C5_EventualDelivery ==
  Quiescent =>
     \A id \in SavedIds :
        \/ HasWithStatus(syncedItem, id, "uploaded")
        \/ HasWithStatus(pendingItem, id, "pending")
        \/ HasWithStatus(pendingItem, id, "failed")

\* C6: every change of a stored record's syncStatus made by a sync pass
\* follows one of the four edges, and uploaded is terminal: a record that
\* markReportSynced has put in the synced bucket stays there and is not in
\* the pending bucket.
C6_StateMachineEdges ==
  [][ \A id \in ReportIds :
        LET before == StoredStatus(pendingItem, syncedItem, id)
            after == StoredStatus(pendingItem', syncedItem', id)
            bySync == \E p \in SyncProcs : pc'[p] # pc[p] \/ awaiting'[p] # awaiting[p]
            markInFlight == \E p \in SyncProcs : pc[p] = "markWrite" /\ finalReport[p].id = id
        IN  /\ (bySync /\ before # after) => <<before, after>> \in SyncEdges
            /\ (HasId(syncedItem, id) /\ ~markInFlight)
                 => (HasId(syncedItem', id) /\ ~HasId(pendingItem', id))
    ]_vars

C8_NotificationOrder ==
  \A p \in SyncProcs :
     /\ delivered[p] \in {<<>>, <<"syncing">>, <<"syncing", "uploaded">>, <<"syncing", "failed">>}
     /\ pc[p] \in {"predict", "upload", "markRead", "markWrite", "failedRead", "failedWrite"}
          => delivered[p] = <<"syncing">>
     /\ pc[p] = "syncingWrite" => delivered[p] = <<>>
     /\ (pc[p] = "syncingRead" /\ processed[p] # <<>>)
          => /\ Len(delivered[p]) = 2
             /\ delivered[p][2] = processed[p][Len(processed[p])][2]

\* C8 witness: a pass has finished one record with a failed upload, notified
\* syncing then failed, and is going on with its next record.
C8_Witness ==
  \E p \in SyncProcs :
     /\ pc[p] = "syncingRead"
     /\ delivered[p] = <<"syncing", "failed">>

\* C9: no record is lost from the merged view: every record of the local
\* store (as refresh read it: either bucket, any syncStatus) is in the list
\* refresh() publishes, also while a pass is in flight and also when the
\* fetch fails, and so is every record of the server when the fetch succeeds.
C9_NoRecordLost ==
  [][ (refreshPc = "fetch" /\ refreshPc' = "idle")
        => /\ IdsOf(local) \subseteq IdsOf(reports')
           /\ (reports' = MergeReports(server, local)) => (IdsOf(server) \subseteq IdsOf(reports'))
    ]_vars

\* C10: the list refresh() publishes never holds two records with the same id.
C10_NoDuplicateInView ==
  \A id \in ReportIds : CountId(reports, id) <= 1

\* C10 witness: a published list with a server copy and a local-only record,
\* while the server and the pending bucket both hold a copy of the same id.
C10_Witness ==
  /\ refreshPc = "idle"
  /\ \E i, j \in 1..Len(reports) :
        /\ reports[i].syncStatus = "uploaded"
        /\ reports[j].syncStatus \in {"pending", "failed"}
        /\ HasId(server, reports[i].id)
        /\ HasId(pendingItem, reports[i].id)

\* C11: the merged view refresh() computes is exactly all server records plus
\* the local records whose id is not in the server set and whose syncStatus is
\* pending or failed: each record occurs in the published list as often as in
\* those two parts together; an id that is both in the server fetch and in the
\* local list is in the view with its server copies only.
C11_MergedViewExact ==
  [][ Publishing =>
        LET serverReports == IF lastFetch' = "resolved" THEN server ELSE <<>>
            localOnly == {i \in 1..Len(local) :
                            /\ \A j \in 1..Len(serverReports) : serverReports[j].id # local[i].id
                            /\ local[i].syncStatus \in {"pending", "failed"}}
        IN  /\ Len(reports') = Len(serverReports) + Cardinality(localOnly)
            /\ \A k \in 1..Len(reports') :
                  CountOf(reports', reports'[k])
                    = CountOf(serverReports, reports'[k])
                      + Cardinality({i \in localOnly : local[i] = reports'[k]})
            /\ \A id \in IdsOf(serverReports) \cap IdsOf(local) :
                  \A k \in 1..Len(reports') :
                     reports'[k].id = id => CountOf(serverReports, reports'[k]) > 0
    ]_vars

\* C11 witness: a published list, built from a successful fetch, that holds
\* the server copy (with the prediction the pass obtained) of a report whose
\* pending copy still has no prediction, next to a local-only record.
C11_Witness ==
  /\ refreshPc = "idle"
  /\ lastFetch = "resolved"
  /\ \E k, j \in 1..Len(reports) :
        /\ reports[k].prediction = SomePrediction
        /\ HasId(pendingItem, reports[k].id)
        /\ FindById(pendingItem, reports[k].id).prediction = NoPrediction
        /\ reports[j].syncStatus \in {"pending", "failed"}
        /\ ~HasId(server, reports[j].id)

\* C12: when the server fetch fails, refresh() returns normally: it takes the
\* server set as empty and publishes the local-only view (the pending and
\* failed local records, most recent first, and no server record), and
\* isRefreshing is false afterwards.
C12_FetchFailureLocalOnly ==
  [][ (Publishing /\ lastFetch' = "rejected") =>
        /\ reports' = SortByTimestampDesc(
                         SelectSeq(local, LAMBDA r : r.syncStatus \in {"pending", "failed"}))
        /\ \A k \in 1..Len(reports') : CountOf(local, reports'[k]) > 0
        /\ isRefreshing' = FALSE
        /\ refreshPc' = "idle"
    ]_vars

\* C12 witness: refresh has returned after a failed fetch, the server holds
\* records, and the published list holds local records only.
C12_Witness ==
  /\ refreshPc = "idle"
  /\ lastFetch = "rejected"
  /\ isRefreshing = FALSE
  /\ server # <<>>
  /\ reports # <<>>
  /\ \A k \in 1..Len(reports) : reports[k].syncStatus # "uploaded"

\* C13: idempotent put.  After saveReport(report) the pending bucket holds
\* exactly one record with that id and it is the report of this call, also
\* when a record with the same id was there before (the second call's fields
\* win); the pending bucket never holds two records with the same id.
C13_IdempotentPut ==
  /\ \A id \in ReportIds : CountId(pendingItem, id) <= 1
  /\ storeCall.op = "saveReport" =>
        /\ CountId(pendingItem, storeCall.id) = 1
        /\ \E i \in 1..Len(pendingItem) : pendingItem[i] = storeCall.report
        /\ \A id \in ReportIds \ {storeCall.id} :
              CountId(pendingItem, id) = CountId(storeCall.pending, id)

\* C13 witness: saveReport has been called with an id the pending bucket
\* already held, with other fields.
C13_Witness ==
  /\ storeCall.op = "saveReport"
  /\ HasId(storeCall.pending, storeCall.id)
  /\ FindById(storeCall.pending, storeCall.id) # storeCall.report
  /\ Len(storeCall.pending) = 2

\* C14: markReportSynced(id) with id not in the pending bucket is a no-op:
\* both buckets are as they were, also when id is already in the synced
\* bucket.
C14_MarkSyncedNoOp ==
  (storeCall.op = "markReportSynced" /\ ~HasId(storeCall.pending, storeCall.id)) =>
     /\ pendingItem = storeCall.pending
     /\ syncedItem = storeCall.synced

\* C14 witness: markReportSynced has been called for an id that is in the
\* synced bucket and not in the pending bucket, which is not empty.
C14_Witness ==
  /\ storeCall.op = "markReportSynced"
  /\ ~HasId(storeCall.pending, storeCall.id)
  /\ HasId(storeCall.synced, storeCall.id)
  /\ storeCall.pending # <<>>

\* C15: markReportSynced(id) with id in the pending bucket removes that
\* record from pending, the other pending records keeping their order, and
\* appends it at the end of synced with syncStatus uploaded and all its other
\* fields as they were; the records synced held before are unchanged.
C15_MarkSyncedMoves ==
  (storeCall.op = "markReportSynced" /\ HasId(storeCall.pending, storeCall.id)) =>
     LET target == FindById(storeCall.pending, storeCall.id)
         rest == {i \in 1..Len(storeCall.pending) : storeCall.pending[i].id # storeCall.id}
     IN  /\ ~HasId(pendingItem, storeCall.id)
         /\ Len(pendingItem) = Cardinality(rest)
         /\ \A i \in rest :
               pendingItem[Cardinality({j \in rest : j <= i})] = storeCall.pending[i]
         /\ Len(syncedItem) = Len(storeCall.synced) + 1
         /\ SubSeq(syncedItem, 1, Len(storeCall.synced)) = storeCall.synced
         /\ syncedItem[Len(syncedItem)] = [target EXCEPT !.syncStatus = "uploaded"]

\* C15 witness: markReportSynced has moved a record that was failed, out of
\* a pending bucket with another record, into a synced bucket that was not
\* empty.
C15_Witness ==
  /\ storeCall.op = "markReportSynced"
  /\ HasWithStatus(storeCall.pending, storeCall.id, "failed")
  /\ Len(storeCall.pending) = 2
  /\ storeCall.synced # <<>>

\* C16: updateReportStatus(id, s) changes only the syncStatus of the pending
\* record with that id: every pending record keeps its place and its other
\* fields, the other records keep their syncStatus, and the synced bucket is
\* unchanged; with id not in pending (also when it is in synced) both
\* buckets are as they were.
C16_UpdateStatusFrame ==
  storeCall.op = "updateReportStatus" =>
     /\ syncedItem = storeCall.synced
     /\ Len(pendingItem) = Len(storeCall.pending)
     /\ \A i \in 1..Len(storeCall.pending) :
           IF storeCall.pending[i].id = storeCall.id
           THEN pendingItem[i] = [storeCall.pending[i] EXCEPT !.syncStatus = storeCall.status]
           ELSE pendingItem[i] = storeCall.pending[i]
     /\ ~HasId(storeCall.pending, storeCall.id) => pendingItem = storeCall.pending

\* C16 witness: updateReportStatus has changed the syncStatus of one of two
\* pending records while the synced bucket held the other id.
C16_Witness ==
  /\ storeCall.op = "updateReportStatus"
  /\ Len(storeCall.pending) = 2
  /\ HasId(storeCall.pending, storeCall.id)
  /\ FindById(storeCall.pending, storeCall.id).syncStatus # storeCall.status
  /\ storeCall.synced # <<>>

\* C17: after deleteReport(id), id is in neither bucket, whichever bucket
\* held it before, and every other record of both buckets is where it was.
C17_DeleteRemoves ==
  storeCall.op = "deleteReport" =>
     /\ ~HasId(pendingItem, storeCall.id)
     /\ ~HasId(syncedItem, storeCall.id)
     /\ pendingItem = SelectSeq(storeCall.pending, LAMBDA r : r.id # storeCall.id)
     /\ syncedItem = SelectSeq(storeCall.synced, LAMBDA r : r.id # storeCall.id)

\* C17 witness: deleteReport has removed an id that was in the synced
\* bucket, while the pending bucket held another record.
C17_Witness ==
  /\ storeCall.op = "deleteReport"
  /\ HasId(storeCall.synced, storeCall.id)
  /\ storeCall.pending # <<>>
  /\ pendingItem # <<>>

\* C18: when NetInfo.fetch() reports offline, runSync returns without any
\* state change: no record changes its syncStatus or bucket, nothing is
\* selected, no classify or upload call is made, no notification is emitted,
\* and this call leaves the guard as it is: clear, unless another pass holds
\* it.
C18_OfflineNoChange ==
  [][ \A p \in SyncProcs :
        (/\ pc[p] = "netFetch"
         /\ called'[p] # called[p]
         /\ ~called'[p][Len(called'[p])].ok) =>
           /\ pc'[p] = "idle"
           /\ called'[p] = <<GatewayCall("NetInfo.fetch", FALSE, NoPrediction)>>
           /\ pendingItem' = pendingItem
           /\ syncedItem' = syncedItem
           /\ server' = server
           /\ toSync' = toSync
           /\ delivered' = delivered
           /\ processed' = processed
           /\ isSyncing' = isSyncing
           /\ (\A q \in SyncProcs \ {p} : ~InPass(q)) => isSyncing' = FALSE
    ]_vars

\* C18 witness: a runSync call has returned on an offline answer while
\* records were waiting in the pending bucket; the guard is clear.
C18_Witness ==
  \E p \in SyncProcs :
     /\ pc[p] = "idle"
     /\ called[p] = <<GatewayCall("NetInfo.fetch", FALSE, NoPrediction)>>
     /\ SelectToSync(pendingItem) # <<>>
     /\ isSyncing = FALSE

\* C19: a pass selects exactly the records of the pending bucket whose
\* syncStatus is pending or failed at the moment getPendingReports returns,
\* in the order of the bucket (a record that is syncing then is not
\* selected), and works through the selection in that order: the record it
\* is working on is the first one not yet finished, and finishing a record
\* moves only that record from the rest to the finished ones.
C19_SelectionExact ==
  [][ \A p \in SyncProcs :
        /\ pc[p] = "getPending" =>
              LET sel == {i \in 1..Len(pendingItem) :
                            pendingItem[i].syncStatus \in {"pending", "failed"}}
              IN  IF sel = {}
                  THEN pc'[p] \in {"idle", "getPending"}
                  ELSE \/ pc'[p] = "getPending"
                       \/ /\ Len(toSync'[p]) = Cardinality(sel)
                          /\ \A i \in sel :
                                toSync'[p][Cardinality({j \in sel : j <= i})] = pendingItem[i]
                          /\ processed'[p] = <<>>
        /\ (pc[p] \notin {"idle", "netFetch", "getPending"} /\ pc'[p] # "idle") =>
              /\ ProcessedIds(p)' \o ToSyncIds(p)' = ProcessedIds(p) \o ToSyncIds(p)
              /\ Len(toSync'[p]) \in {Len(toSync[p]), Len(toSync[p]) - 1}
        /\ pc'[p] \in {"predict", "upload", "markRead", "markWrite", "failedRead", "failedWrite"} =>
              finalReport'[p].id = toSync'[p][1].id
        /\ (pc[p] = "upload" /\ pc'[p] = "markRead") => HasId(server', toSync[p][1].id)
    ]_vars

\* C19 witness: a pass has just made its selection and left out a record
\* that a pass before it left syncing in the pending bucket.
C19_Witness ==
  \E p \in SyncProcs :
     /\ pc[p] = "syncingRead"
     /\ processed[p] = <<>>
     /\ toSync[p] # <<>>
     /\ \A q \in SyncProcs \ {p} : pc[q] = "idle"
     /\ userPc = "idle"
     /\ \E i \in 1..Len(pendingItem) :
           /\ pendingItem[i].syncStatus = "syncing"
           /\ \A k \in 1..Len(toSync[p]) : toSync[p][k].id # pendingItem[i].id

\* C20: a missing prediction never blocks upload.  predictSpecies is called
\* only for a selected record without a prediction; however it ends, the
\* next call is uploadReport for that record; the payload carries the
\* prediction just obtained when predictSpecies resolved, no prediction when
\* it rejected, and the record's own prediction when it had one.
C20_PredictionNeverBlocks ==
  [][ \A p \in SyncProcs :
        LET report == toSync'[p][1]
            classify(ok) == GatewayCall("predictSpecies", ok, NoPrediction)
            upload(ok, prediction) == GatewayCall("uploadReport", ok, prediction)
        IN  /\ pc'[p] = "predict" =>
                  report.prediction = NoPrediction /\ called'[p] = <<>>
            /\ (pc[p] = "predict" /\ pc'[p] # "predict") => pc'[p] = "upload"
            /\ pc'[p] = "upload" =>
                  IF report.prediction # NoPrediction
                  THEN called'[p] = <<>>
                  ELSE called'[p] \in {<<classify(TRUE)>>, <<classify(FALSE)>>}
            /\ pc'[p] \in {"markRead", "markWrite", "failedRead", "failedWrite"} =>
                  \E sent \in BOOLEAN :
                     IF report.prediction # NoPrediction
                     THEN called'[p] = <<upload(sent, report.prediction)>>
                     ELSE called'[p] \in {<<classify(TRUE), upload(sent, SomePrediction)>>,
                                          <<classify(FALSE), upload(sent, NoPrediction)>>}
    ]_vars

\* C20 witness: predictSpecies rejected for a record without prediction, and
\* the record has been uploaded, without prediction.
C20_Witness ==
  \E p \in SyncProcs :
     /\ pc[p] = "markRead"
     /\ called[p] = <<GatewayCall("predictSpecies", FALSE, NoPrediction),
                      GatewayCall("uploadReport", TRUE, NoPrediction)>>
     /\ HasId(server, finalReport[p].id)

-----------------------------------------------------------------------------
(* Outbreak detection *)

\* The ids of the members of a zone.
MembersOf(zone) == IdsOf(zone.reports)

\* The zones of a result that have the record among their members.
ZonesHolding(zones, id) == {k \in 1..Len(zones) : id \in MembersOf(zones[k])}

\* C21: in the result of one detectOutbreaks call no record is a member of
\* more than one zone: a record that is a member of an emitted zone is in no
\* zone emitted for a later anchor.
C21_NoRecordInTwoZones ==
  \A i \in 1..Len(outbreakZones) : \A j \in 1..Len(outbreakZones) :
    i < j => MembersOf(outbreakZones[i]) \cap MembersOf(outbreakZones[j]) = {}

\* A step that is a detectOutbreaks call.
DetectStep == Len(detectedAt') = Len(detectedAt) + 1

\* The candidate has at least MIN_REPORTS candidates within RADIUS_KM of it,
\* itself included.
Dense(c, candidates) == Len(ClusterOf(c, candidates)) >= MIN_REPORTS

\* The records of the zones before the k-th.
MembersBefore(zones, k) == UNION {MembersOf(zones[j]) : j \in 1..(k - 1)}

\* C22: a zone is emitted for an unvisited anchor if and only if at least
\* MIN_REPORTS candidates lie within RADIUS_KM of the anchor: every zone is
\* the cluster of a candidate that was in no earlier zone and has that many
\* candidates around it, and every candidate with that many candidates
\* around it is in some zone.  Every zone has reportCount equal to the number
\* of its members and at least MIN_REPORTS.  MIN_REPORTS candidates all
\* within RADIUS_KM of the first give exactly one zone with all of them.
C22_ZoneIffThreshold ==
  [][DetectStep =>
       LET candidates == Candidates(allReports)
           zones == outbreakZones'
       IN  /\ \A k \in 1..Len(zones) :
                /\ zones[k].reportCount = Len(zones[k].reports)
                /\ zones[k].reportCount >= MIN_REPORTS
                /\ \E i \in 1..Len(candidates) :
                     /\ zones[k].reports = ClusterOf(candidates[i], candidates)
                     /\ candidates[i].id \notin MembersBefore(zones, k)
           /\ \A i \in 1..Len(candidates) :
                Dense(candidates[i], candidates) => ZonesHolding(zones, candidates[i].id) # {}
           /\ (\A i \in 1..Len(candidates) : ~Dense(candidates[i], candidates)) => zones = <<>>
           /\ (/\ Len(candidates) = MIN_REPORTS
               /\ Len(ClusterOf(candidates[1], candidates)) = MIN_REPORTS)
                => (Len(zones) = 1 /\ zones[1].reportCount = MIN_REPORTS)
    ]_vars

\* Six records are handed over, five of them are candidates within RADIUS_KM
\* of the first, and the call returned one zone with these five.
C22_Witness ==
  /\ detectedAt # <<>>
  /\ Len(allReports) = MIN_REPORTS + 1
  /\ now = detectedAt[Len(detectedAt)]
  /\ Len(Candidates(allReports)) = MIN_REPORTS
  /\ Len(outbreakZones) = 1
  /\ outbreakZones[1].reportCount = MIN_REPORTS

\* The record qualifies at the clock reading: prediction not null, risk level
\* high, confidence at least MIN_CONFIDENCE, not older than TIME_WINDOW_DAYS.
Qualifies(r, clock) ==
  /\ r.prediction # NoPrediction
  /\ r.invasive_risk_level = "high"
  /\ r.confidence_score >= MIN_CONFIDENCE
  /\ clock - r.timestamp <= TIME_WINDOW_DAYS * MsPerDay

\* C23: every member of every returned zone is a candidate (prediction not
\* null, risk level high, confidence at least MIN_CONFIDENCE, timestamp within
\* TIME_WINDOW_DAYS of now), every member is a record of the list handed
\* over, and each zone has MIN_REPORTS members that qualify: records that do
\* not qualify are in no zone and do not count towards the threshold.
C23_MembersAreCandidates ==
  [][DetectStep =>
       \A k \in 1..Len(outbreakZones') :
         LET members == outbreakZones'[k].reports
         IN  /\ \A m \in 1..Len(members) :
                  /\ Qualifies(members[m], now)
                  /\ \E i \in 1..Len(allReports) : allReports[i] = members[m]
             /\ Cardinality({i \in 1..Len(allReports) :
                               /\ Qualifies(allReports[i], now)
                               /\ allReports[i].id \in IdsOf(members)}) >= MIN_REPORTS
    ]_vars

\* A record with confidence exactly MIN_CONFIDENCE is a member of a returned
\* zone, next to a list in which another choice of that record would not be.
C23_Witness ==
  /\ detectedAt # <<>>
  /\ \E k \in 1..Len(outbreakZones) : \E m \in 1..Len(outbreakZones[k].reports) :
       outbreakZones[k].reports[m].confidence_score = MIN_CONFIDENCE

\* C24: a record captured exactly TIME_WINDOW_DAYS * 86400000 ms before now
\* passes isWithinDays, a record captured one millisecond earlier does not.
C24_WindowBoundary ==
  \A i \in 1..Len(allReports) :
    /\ allReports[i].timestamp = now - TIME_WINDOW_DAYS * 86400000
         => isWithinDays(allReports[i].timestamp, TIME_WINDOW_DAYS)
    /\ allReports[i].timestamp = now - TIME_WINDOW_DAYS * 86400000 - 1
         => ~isWithinDays(allReports[i].timestamp, TIME_WINDOW_DAYS)

\* A record exactly at the boundary was a member of the zone of the first
\* call; a millisecond later the second call no longer counts it and returns
\* no zone.
C24_Witness ==
  /\ Len(detectedAt) = 2
  /\ detectedAt[2] = detectedAt[1] + 1
  /\ Len(previousZones) = 1
  /\ outbreakZones = <<>>
  /\ \E i \in 1..Len(allReports) :
       /\ allReports[i].timestamp = detectedAt[1] - TIME_WINDOW_DAYS * 86400000
       /\ allReports[i].id \in MembersOf(previousZones[1])

\* A zone without the generated id and detectedAt.
ZoneContent(zone) ==
  [centerCoordinates |-> zone.centerCoordinates, radiusKm |-> zone.radiusKm,
   reportCount |-> zone.reportCount, reports |-> zone.reports]

-----------------------------------------------------------------------------
(* Failures of collaborator calls *)

\* C26: no error of the core escapes to the caller: runSync, refresh,
\* addReport and triggerSync complete without raising, whichever collaborator
\* call fails.
C26_NoErrorEscapes == raised = {}

\* C28: when a pass ends, normally or by an exception thrown inside it,
\* isSyncing is cleared; the guard is never set while no pass is executing,
\* so a runSync() call made while no pass is executing gets past the guard.
C28_GuardReleased ==
  [][/\ \A p \in SyncProcs : (InPass(p) /\ ~InPass(p)') => ~isSyncing'
     /\ isSyncing' => \E p \in SyncProcs : InPass(p)'
     /\ (\A p \in SyncProcs : ~InPass(p)') => RunSyncEntry(isSyncing') = "netFetch"
    ]_vars

\* A pass of the invocation ended by the exception of a rejected setItem, and
\* the same caller is in a new pass.
C28_Witness ==
  \E p \in SyncProcs :
    /\ fault.call = "setItem"
    /\ fault.by = p
    /\ "runSync" \in raised
    /\ InPass(p)
    /\ isSyncing

\* The other AsyncStorage item.
OtherKey(k) == IF k = "pending" THEN "synced" ELSE "pending"

\* What the getItem of the item returns to getAllReports: what it returned,
\* if the call has resolved, and what the item holds otherwise.
ReadOf(k) ==
  IF k \in refreshAwaiting
    THEN IF k = "pending" THEN pendingItem ELSE syncedItem
    ELSE IF k = "pending" THEN pendingRaw ELSE syncedRaw

\* C27: a read or parse failure of one bucket is recovered by treating only
\* that bucket as empty: when one getItem of getAllReports fails,
\* getAllReports returns the records of the other bucket.
C27_OnlyUnreadableBucketEmpty ==
  [][(refreshPc = "getAll" /\ refreshPc' = "fetch" /\ fault'.n = fault.n + 1)
       => local' = GetAllReportsResult(ReadOf(OtherKey(fault'.key)), <<>>)
    ]_vars

-----------------------------------------------------------------------------
(* The course of a pass *)

\* The ids of the records the pass selected at its start.
SelectedIds(p) == {ProcessedIds(p)[i] : i \in 1..Len(processed[p])} \cup IdsOf(toSync[p])

\* A step of the runSync invocation.
StepOf(p) == pc'[p] # pc[p] \/ awaiting'[p] # awaiting[p]

\* C29: a pass runs over the records selected at its start, each once and one
\* after the other: the record it uploads is the head of what is left of the
\* selection and has not been finished by this pass, and finishing a record
\* moves the pass to the next one or ends it.  A record that is pending in
\* the pending bucket and is not in the selection of the pass (it was added
\* during the pass) is left pending in the pending bucket by every step of
\* the pass.
C29_PassOverSelection ==
  [][\A p \in SyncProcs :
       /\ (pc'[p] = "upload" /\ pc[p] # "upload")
            => /\ finalReport'[p].id = Head(toSync'[p]).id
               /\ \A i \in 1..Len(processed'[p]) : processed'[p][i][1] # finalReport'[p].id
       /\ (InPass(p) /\ pc[p] # "getPending" /\ StepOf(p))
            => \A id \in ReportIds \ SelectedIds(p) :
                 HasWithStatus(pendingItem, id, "pending")
                   => HasWithStatus(pendingItem', id, "pending")
    ]_vars

-----------------------------------------------------------------------------
(* Overlapping refresh() calls *)

\* C30: a refresh that read older data never overwrites the result of a
\* refresh that read newer data.  When the published list is the merge of the
\* current store and the current server set, published by a refresh() call
\* whose fetch resolved and that read the store after the call now
\* publishing did, and the fetch of the call now publishing resolves too, the
\* published list stays what it is.
C30_NoStaleOverwrite ==
  [][(/\ Publishing
      /\ lastFetch = "resolved"
      /\ lastFetch' = "resolved"
      /\ reports = MergeReports(server, GetAllReportsResult(pendingItem, syncedItem)))
       => reports' = reports
    ]_vars

-----------------------------------------------------------------------------
(* The order of the published list *)

\* The place of the report in the list.
PositionIn(list, r) == CHOOSE k \in 1..Len(list) : list[k] = r

\* C31: the list published by refresh() is sorted by timestamp descending,
\* and records with equal timestamps keep the order of the concatenation:
\* server records first (in the order the server returned them), then the
\* local-only records.
C31_PublishedSorted ==
  [][Publishing =>
       LET serverReports == IF lastFetch' = "resolved" THEN server ELSE <<>>
           localOnly == SelectSeq(local,
                          LAMBDA r : /\ r.id \notin IdsOf(serverReports)
                                     /\ r.syncStatus \in {"pending", "failed"})
           all == serverReports \o localOnly
       IN  /\ Len(reports') = Len(all)
           /\ \A i \in 1..Len(reports') : \E k \in 1..Len(all) : all[k] = reports'[i]
           /\ \A i \in 1..Len(reports') : \A j \in 1..Len(reports') :
                i < j => /\ reports'[i].timestamp >= reports'[j].timestamp
                         /\ reports'[i].timestamp = reports'[j].timestamp
                              => PositionIn(all, reports'[i]) < PositionIn(all, reports'[j])
    ]_vars

\* The published list holds a server record followed by a local-only record
\* of the same timestamp and a smaller id, and two server records of the same
\* timestamp are not possible with it: the tie is between the two parts.
C31_Witness ==
  /\ refreshPc = "idle"
  /\ lastFetch = "resolved"
  /\ \E i \in 1..(Len(reports) - 1) :
       /\ reports[i].timestamp = reports[i + 1].timestamp
       /\ reports[i].syncStatus = "uploaded"
       /\ reports[i + 1].syncStatus = "pending"
       /\ reports[i].id > reports[i + 1].id

-----------------------------------------------------------------------------
(* Prediction backfill *)

\* C32: when a pass obtained a prediction for a record that had none and the
\* upload succeeded, the record markReportSynced puts into the synced bucket
\* carries that prediction.
C32_PredictionBackfilled ==
  [][\A p \in SyncProcs :
       (/\ pc[p] = "markWrite"
        /\ pc'[p] # "markWrite"
        /\ Head(toSync[p]).prediction = NoPrediction
        /\ finalReport[p].prediction = SomePrediction)
         => \E i \in 1..Len(syncedItem') :
              /\ syncedItem'[i].id = finalReport[p].id
              /\ syncedItem'[i].prediction = finalReport[p].prediction
    ]_vars

-----------------------------------------------------------------------------
(* Zone membership and the order of the zones *)

\* The places in the list of candidates of the records a zone can have been
\* emitted for: candidates in none of the zones before it whose cluster is
\* the member list of the zone.
AnchorsOf(zones, k, candidates) ==
  {i \in 1..Len(candidates) :
     /\ candidates[i].id \notin MembersBefore(zones, k)
     /\ zones[k].reports = ClusterOf(candidates[i], candidates)}

\* The least number of a non-empty set of numbers.
Least(S) == CHOOSE i \in S : \A j \in S : i <= j

\* C33: zone membership is relative to the anchor only.  Every zone has an
\* anchor among its members, and its members are exactly the candidates at
\* most RADIUS_KM from the anchor, the boundary included, in list order:
\* nothing of another anchor's cluster is merged into it, and nothing is
\* required of the distance between two members.
C33_MembersWithinRadiusOfAnchor ==
  [][DetectStep =>
       LET candidates == Candidates(allReports)
           zones == outbreakZones'
       IN  \A k \in 1..Len(zones) :
             \E a \in 1..Len(candidates) :
               /\ candidates[a].id \in MembersOf(zones[k])
               /\ candidates[a].id \notin MembersBefore(zones, k)
               /\ zones[k].reports =
                    SelectSeq(candidates,
                              LAMBDA r : /\ candidates[a].coordinates - r.coordinates <= RADIUS_KM
                                         /\ r.coordinates - candidates[a].coordinates <= RADIUS_KM)
    ]_vars

\* A zone has a member exactly RADIUS_KM south of its anchor and a member
\* exactly RADIUS_KM north of it: the two are twice RADIUS_KM apart.
C33_Witness ==
  /\ detectedAt # <<>>
  /\ \E k \in 1..Len(outbreakZones) :
       LET members == outbreakZones[k].reports
       IN  /\ members[1].coordinates = RADIUS_KM
           /\ \E m \in 1..Len(members) : members[m].coordinates = 0
           /\ \E m \in 1..Len(members) : members[m].coordinates = 2 * RADIUS_KM

\* C34: the zones are returned in the order in which their anchors occur in
\* the input: the first record each zone can have been emitted for comes
\* later in the list than that of the zone before it.  (That two orderings of
\* the same records give zones of different membership is what the witness
\* shows.)
C34_ZonesInAnchorOrder ==
  [][DetectStep =>
       LET candidates == Candidates(allReports)
           zones == outbreakZones'
       IN  /\ \A k \in 1..Len(zones) : AnchorsOf(zones, k, candidates) # {}
           /\ \A k \in 1..(Len(zones) - 1) :
                Least(AnchorsOf(zones, k, candidates)) < Least(AnchorsOf(zones, k + 1, candidates))
    ]_vars

\* The sets of members of the zones of a result.
MemberSets(zones) == {MembersOf(zones[k]) : k \in 1..Len(zones)}

\* The first call ran on the list, the second on the same records in the
\* opposite order at the same clock reading, and the two results differ in
\* the membership of their zones.
C34_Witness ==
  /\ Len(detectedAt) = 2
  /\ detectedAt[1] = detectedAt[2]
  /\ Len(allReports) > 1
  /\ allReports[1].id > allReports[2].id
  /\ previousZones # <<>>
  /\ outbreakZones # <<>>
  /\ MemberSets(previousZones) # MemberSets(outbreakZones)

-----------------------------------------------------------------------------
(* Uploads, statuses and notifications over the life of the program *)

\* C35: each record is accepted by the server upload at most once: a pass
\* does not get to the uploadReport call for a record the server has
\* accepted before, from a pass or from the direct upload of handleSave.
C35_UploadedAtMostOnce ==
  [][\A p \in SyncProcs :
       (pc[p] # "upload" /\ pc'[p] = "upload") => ~HasId(server, finalReport'[p].id)]_vars

\* C36: whenever no synchronization pass is executing, no record in the
\* pending bucket has syncStatus syncing.
C36_NoSyncingOutsidePass ==
  (\A p \in SyncProcs : pc[p] = "idle")
     => \A i \in 1..Len(pendingItem) : pendingItem[i].syncStatus # "syncing"

\* C37: every notification agrees with the store at the moment it is
\* emitted: told uploaded, the record is in the synced bucket; told failed
\* or syncing, it is in the pending bucket with that status.
C37_NotificationAgreesWithStore ==
  [][\A p \in SyncProcs :
       Len(delivered'[p]) > Len(delivered[p])
         => LET status == delivered'[p][Len(delivered'[p])]
                id == Head(toSync[p]).id
            IN  IF status = "uploaded"
                  THEN HasWithStatus(syncedItem', id, "uploaded")
                  ELSE HasWithStatus(pendingItem', id, status)]_vars

\* C38: the pending bucket never holds two records with the same id,
\* whatever the interleaving of saveReport, updateReportStatus,
\* markReportSynced and deleteReport at their await points.
C38_PendingIdsDistinct ==
  \A i \in 1..Len(pendingItem) : \A j \in 1..Len(pendingItem) :
     i # j => pendingItem[i].id # pendingItem[j].id

\* Both callers are inside saveReport of one id, between the read and the
\* write, and the pending bucket holds that id and another one.
C38_Witness ==
  /\ Len(pendingItem) = 2
  /\ \A c \in OpCallers : ops[c].op = "saveReport" /\ ops[c].pc = "write"
  /\ ops["c1"].id = ops["c2"].id
  /\ HasId(pendingItem, ops["c1"].id)

-----------------------------------------------------------------------------
(* Listeners *)

\* C39: a listener registered and not unsubscribed receives every
\* notification exactly once, also when an unsubscribe function is called
\* while the notification is being delivered; a listener whose unsubscribe
\* function has been called receives nothing further, and an unsubscribe
\* leaves the registrations of the other listeners as they are.
C39_ListenersNotifiedExactlyOnce ==
  [][/\ (forEachIndex.n > 0 /\ forEachIndex'.k = 0 /\ forEachIndex'.n >= forEachIndex.n
          /\ (forEachIndex.k # 0 \/ forEachIndex'.n > forEachIndex.n))
         => \A l \in subscribed' \ unsubscribed' : received'[l] = 1
     /\ \A l \in Listeners : received'[l] > received[l] => l \notin unsubscribed
     /\ \A l \in Listeners :
          (l \in unsubscribed' \ unsubscribed)
             => \A m \in Listeners \ {l} :
                  (\E i \in 1..Len(listeners) : listeners[i] = m)
                     <=> (\E i \in 1..Len(listeners') : listeners'[i] = m)
    ]_vars


====
